---- MODULE Spec2Model ----
(***************************************************************************)
(* Domestic task manager: the rotation and deadline engine                 *)
(* (app/logic/task_manager.py), the repository calls it uses               *)
(* (app/database/crud.py) and the weekly time-pattern resolver             *)
(* (TimePatternService).                                                   *)
(*                                                                         *)
(* Time is an integer number of clock units; a day has DayLen units, the   *)
(* instant 0 is a Monday at 00:00:00.  All timestamps live in one time     *)
(* zone.                                                                   *)
(***************************************************************************)
EXTENDS Integers, Sequences, FiniteSets, TLC

VARIABLES
    now,        \* the wall clock (datetime.now)
    users,      \* users table: user name -> has google_credentials_json
    defs,       \* task_definitions table, keyed by the unique name
    inst,       \* task_instances table: row id -> row (rows are never deleted)
    log,        \* task_completion_history table, in insertion order
    gtasks,     \* the external task board: instance id -> item
    pc,         \* where main_loop is: "idle", "ensure", "deadline" or "gtasks"
    todoDefs,   \* _assign_new_tasks: definitions still to visit
    todoInst,   \* _process_active_instances: instances still to visit
    todoUsers,  \* main_loop step 5: users still to synchronise
    cycle0,     \* history: the tables as process_all_tasks found them, <<>> outside it
    quiet,      \* history: no evaluation of this process_all_tasks has yet met a
                \* completed instance or an elapsed deadline_final
    rot,        \* the rotation on its own: a roster, the user it started from,
                \* the user reached and the number of steps taken
    calls,      \* overlapping calls of _assign_to_next_user: for each call its
                \* argument, its position and its already_existing_instance
    lock,       \* the repository: whether it serialises the calls for a pair
                \* of a definition and a user, and the call it lets through
    find        \* one call of find_start_datetime: its arguments, the patterns
                \* its loop has still to visit, best_dt, best_score and the
                \* value returned

vars == <<now, users, defs, inst, log, gtasks, pc, todoDefs, todoInst, todoUsers,
          cycle0, quiet, rot, calls, lock, find>>

----------------------------------------------------------------------------
(* Bounds of the model *)

\* the clock runs from 0 to MaxTime
MaxTime == 3
\* main_loop runs only while neither the instance table nor the completion
\* history has more than MaxRows rows
MaxRows == 2
\* the rosters of the rotation taken on its own have 1 to MaxRoster names
MaxRoster == 3
\* find_start_datetime taken on its own: a preference list has at most
\* MaxPrefs tokens, nb_days is at most MaxLead days
MaxPrefs == 2
MaxLead == 2

----------------------------------------------------------------------------
(* Constants of the program *)

NULL == -999

STATUS_ACTIVE == "active"
STATUS_COMPLETED == "completed"
STATUS_TERMINATED == "terminated"

BEHAVIOR_KEEP == "Garder"
BEHAVIOR_CHANGE == "Changer"
BEHAVIOR_KEEP_AND_CHANGE == "Garder et changer"

TRIGGER_API == "api_completed"
TRIGGER_DELETED == "deleted_in_app"
TRIGGER_PASSED_OVER == "passed_over"

DAY_MAP ==
    [n \in {"Lundi", "Mardi", "Mercredi", "Jeudi", "Vendredi", "Samedi", "Dimanche"} |->
        CASE n = "Lundi" -> 0 [] n = "Mardi" -> 1 [] n = "Mercredi" -> 2
          [] n = "Jeudi" -> 3 [] n = "Vendredi" -> 4 [] n = "Samedi" -> 5
          [] n = "Dimanche" -> 6]

\* The clock times the model tells apart; ClockTimes[k] is k-1 units after
\* midnight.
ClockTimes == <<"00:00:00", "12:00:00">>
DayLen == Len(ClockTimes)
Week == 7 * DayLen

Range(s) == {s[k] : k \in DOMAIN s}
Max(a, b) == IF a >= b THEN a ELSE b
Abs(a) == IF a >= 0 THEN a ELSE 0 - a

----------------------------------------------------------------------------
(* TimePatternService *)

\* datetime.weekday(), datetime.date() and datetime.combine()
Weekday(t) == (t \div DayLen) % 7
DateOf(t) == t \div DayLen
Combine(date, tod) == date * DayLen + tod

\* strptime(s, "%H:%M:%S").time(): the time of day, or a ValueError (NULL)
Strptime(s) ==
    IF s \in Range(ClockTimes)
    THEN (CHOOSE k \in DOMAIN ClockTimes : ClockTimes[k] = s) - 1
    ELSE NULL

\* _parse_preference.  A preference string is held as the tuple of its
\* whitespace-separated parts (pref.split()).  ok = FALSE is the ValueError.
ParsePreference(pref) ==
    IF Len(pref) = 2
    THEN IF pref[1] \notin DOMAIN DAY_MAP \/ Strptime(pref[2]) = NULL
         THEN [ok |-> FALSE, d |-> NULL, t |-> NULL]
         ELSE [ok |-> TRUE, d |-> DAY_MAP[pref[1]], t |-> Strptime(pref[2])]
    ELSE IF Len(pref) = 1 /\ Strptime(pref[1]) # NULL
    THEN [ok |-> TRUE, d |-> NULL, t |-> Strptime(pref[1])]
    ELSE IF Len(pref) = 1 /\ pref[1] \in DOMAIN DAY_MAP
    THEN [ok |-> TRUE, d |-> DAY_MAP[pref[1]], t |-> NULL]
    ELSE [ok |-> FALSE, d |-> NULL, t |-> NULL]

PrefsParse(prefs) == \A k \in DOMAIN prefs : ParsePreference(prefs[k]).ok

SetMin(S) == CHOOSE x \in S : \A y \in S : x <= y

\* variant: a day-only day is given 00:00:00 whatever the time-only tokens
MidnightForDayOnly(parsed) ==
    LET day_time == {<<p.d, p.t>> : p \in {q \in parsed : q.d # NULL /\ q.t # NULL}}
        day_only_days == {p.d : p \in {q \in parsed : q.d # NULL /\ q.t = NULL}}
        times_only == {p.t : p \in {q \in parsed : q.d = NULL /\ q.t # NULL}}
        day_time_days == {p.d : p \in {q \in parsed : q.d # NULL /\ q.t # NULL}}
    IN  IF day_time_days \cup day_only_days # {}
        THEN day_time \cup {<<d, 0>> : d \in day_only_days \ day_time_days}
        ELSE IF times_only # {}
        THEN {<<d, t>> : d \in 0..6, t \in times_only}
        ELSE {<<d, 0>> : d \in 0..6}

\* _build_patterns, lines 65-101: the patterns of the parsed tokens
PatternsOf(parsed) ==
    LET day_time == {<<p.d, p.t>> : p \in {q \in parsed : q.d # NULL /\ q.t # NULL}}
        day_only_days == {p.d : p \in {q \in parsed : q.d # NULL /\ q.t = NULL}}
        times_only == {p.t : p \in {q \in parsed : q.d = NULL /\ q.t # NULL}}
        day_time_days == {p.d : p \in {q \in parsed : q.d # NULL /\ q.t # NULL}}
        allowed_days == {p.d : p \in {q \in parsed : q.d # NULL}}
    IN  IF allowed_days # {}
        THEN day_time
             \cup {<<d, IF times_only # {} THEN SetMin(times_only) ELSE 0>> :
                      d \in day_only_days \ day_time_days}
             \cup {<<d, t>> : d \in (allowed_days \ day_time_days) \ day_only_days,
                              t \in times_only}
        ELSE IF times_only # {}
        THEN {<<d, t>> : d \in 0..6, t \in times_only}
        ELSE {<<d, 0>> : d \in 0..6}

\* _build_patterns, for a list whose tokens all parse
BuildPatterns(prefs) == PatternsOf({ParsePreference(prefs[k]) : k \in DOMAIN prefs})

\* variant: an occurrence at the moment itself is kept
OccurrenceFromMoment(moment, weekday, at_time) ==
    LET days_ahead == (weekday - Weekday(moment)) % 7
        candidate == Combine(DateOf(moment) + days_ahead, at_time)
    IN  IF candidate < moment THEN candidate + Week ELSE candidate

\* _next_occurrence_after
NextOccurrenceAfter(moment, weekday, at_time) ==
    LET days_ahead == (weekday - Weekday(moment)) % 7
        candidate == Combine(DateOf(moment) + days_ahead, at_time)
    IN  IF candidate <= moment THEN candidate + Week ELSE candidate

\* variant: of two occurrences as near, the later one
LaterOnTies(anchor, weekday, at_time) ==
    LET days_ahead == (weekday - Weekday(anchor)) % 7
        first == Combine(DateOf(anchor) + days_ahead, at_time)
        next_occ == IF first < anchor THEN first + Week ELSE first
        prev_occ == next_occ - Week
    IN  IF Abs(anchor - prev_occ) < Abs(next_occ - anchor)
        THEN <<prev_occ, Abs(anchor - prev_occ)>>
        ELSE <<next_occ, Abs(next_occ - anchor)>>

\* _nearest_occurrence_to: <<occurrence, distance>>
NearestOccurrenceTo(anchor, weekday, at_time) ==
    LET days_ahead == (weekday - Weekday(anchor)) % 7
        first == Combine(DateOf(anchor) + days_ahead, at_time)
        next_occ == IF first < anchor THEN first + Week ELSE first
        prev_occ == next_occ - Week
        delta_next == Abs(next_occ - anchor)
        delta_prev == Abs(anchor - prev_occ)
    IN  IF delta_prev <= delta_next
        THEN <<prev_occ, delta_prev>>
        ELSE <<next_occ, delta_next>>

\* while candidate > end_date: candidate -= 7 days
RECURSIVE RollBack(_, _)
RollBack(candidate, end_date) ==
    IF candidate > end_date THEN RollBack(candidate - Week, end_date) ELSE candidate

\* variant: the nearest occurrence is kept as it is
ScoredWithoutRollBack(pattern, target, end_date) ==
    NearestOccurrenceTo(target, pattern[1], pattern[2])

\* one pattern's candidate and score in the deadline branch
Scored(pattern, target, end_date) ==
    LET near == NearestOccurrenceTo(target, pattern[1], pattern[2])
    IN  IF near[1] > end_date
        THEN <<RollBack(near[1], end_date), Abs(RollBack(near[1], end_date) - target)>>
        ELSE near

\* the loop "for wd, t in patterns" keeping best_dt and best_score: a
\* candidate replaces the best when its score is smaller, or equal with an
\* earlier date, so the loop ends on the least <<score, date>> whatever the
\* order of the set; <<>> when there is no pattern
BestOf(patterns, target, end_date) ==
    LET scored == {Scored(p, target, end_date) : p \in patterns}
    IN  IF scored = {} THEN <<>>
        ELSE CHOOSE c \in scored :
                 \A e \in scored : c[2] < e[2] \/ (c[2] = e[2] /\ c[1] <= e[1])

\* find_start_datetime, for preferences that parse; end_date or nb_days may
\* be NULL; at is datetime.now()
FindStartDatetime(prefs, end_date, nb_days, at) ==
    LET patterns == BuildPatterns(prefs)
        candidates == {NextOccurrenceAfter(at, p[1], p[2]) : p \in patterns}
        no_deadline == IF candidates # {} THEN SetMin(candidates) ELSE at
    IN  IF nb_days = NULL \/ end_date = NULL
        THEN no_deadline
        ELSE LET best == BestOf(patterns, end_date - nb_days * DayLen, end_date)
             IN  IF best # <<>> THEN best[1] ELSE no_deadline

----------------------------------------------------------------------------
(* The database: app/database/crud.py over app/database/models.py *)

\* An optional value (Python's None or a value) is the empty tuple or <<v>>.
None == <<>>
Some(v) == <<v>>

\* The registered user names other than those of the roster may be missing:
\* users is keyed by the unique name, which stands for the user id too.
UserNames == {"A", "B"}

\* The definition names the sheet may hold; the unique name stands for the id.
DefNames == {"t1", "t2"}

\* kwargs applied to a row: Query.update(kwargs)
Updated(row, kwargs) ==
    [f \in DOMAIN row |-> IF f \in DOMAIN kwargs THEN kwargs[f] ELSE row[f]]

\* get_user_by_name: is there a row of that name
GetUserByName(registry, name) == name \in DOMAIN registry

\* get_active_task_definitions
GetActiveTaskDefinitions(definitions) ==
    {d \in DOMAIN definitions : definitions[d].known /\ definitions[d].is_active}

\* get_active_task_instance_for_definition: the ids of the rows
GetActiveTaskInstanceForDefinition(db, task_def_id) ==
    {i \in DOMAIN db.inst : /\ db.inst[i].task_definition_id = task_def_id
                            /\ db.inst[i].status # STATUS_TERMINATED}

\* Variants of get_active_task_instance_for_user: one that never finds a row,
\* one that forgets the filter on the status
NoInstanceForUser(db, task_def_id, user_id) == 0
AnyInstanceForUser(db, task_def_id, user_id) ==
    LET rows == {i \in DOMAIN db.inst : /\ db.inst[i].task_definition_id = task_def_id
                                        /\ db.inst[i].assigned_user_id = user_id}
    IN  IF rows = {} THEN 0 ELSE CHOOSE i \in rows : \A j \in rows : i <= j

\* get_active_task_instance_for_user: .first() of the matching rows, 0 for None
GetActiveTaskInstanceForUser(db, task_def_id, user_id) ==
    LET rows == {i \in DOMAIN db.inst : /\ db.inst[i].task_definition_id = task_def_id
                                        /\ db.inst[i].status # STATUS_TERMINATED
                                        /\ db.inst[i].assigned_user_id = user_id}
    IN  IF rows = {} THEN 0 ELSE SetMin(rows)

\* get_all_active_task_instances
GetAllActiveTaskInstances(db, definitions) ==
    {i \in DOMAIN db.inst :
        /\ db.inst[i].task_definition_id \in GetActiveTaskDefinitions(definitions)
        /\ db.inst[i].status # STATUS_TERMINATED}

\* A variant of create_task_instance whose allow_reassignment defaults to
\* False
CreateTaskInstanceClosed(db, kwargs) ==
    LET defaults == [task_definition_id |-> "", assigned_user_id |-> "",
                     gtasks_task_id |-> None, assigned_at |-> NULL,
                     deadline_repeat |-> NULL, deadline_final |-> NULL,
                     completed_at |-> NULL, status |-> STATUS_ACTIVE,
                     start_date |-> NULL, allow_reassignment |-> FALSE]
    IN  [db EXCEPT !.inst =
            Append(@, [f \in DOMAIN defaults |->
                          IF f \in DOMAIN kwargs THEN kwargs[f] ELSE defaults[f]])]

\* create_task_instance: the columns not given take the defaults of the model
\* class (status active, allow_reassignment True, the nullable ones NULL)
CreateTaskInstance(db, kwargs) ==
    LET defaults == [task_definition_id |-> "", assigned_user_id |-> "",
                     gtasks_task_id |-> None, assigned_at |-> NULL,
                     deadline_repeat |-> NULL, deadline_final |-> NULL,
                     completed_at |-> NULL, status |-> STATUS_ACTIVE,
                     start_date |-> NULL, allow_reassignment |-> TRUE]
    IN  [db EXCEPT !.inst = Append(@, Updated(defaults, kwargs))]

\* update_task_instance
UpdateTaskInstance(db, instance_id, kwargs) ==
    [db EXCEPT !.inst[instance_id] = Updated(@, kwargs)]

\* A variant of create_completion_log that writes nothing
NothingLogged(db, task_instance_id, user_id, completed_at, trigger_type) == db

\* A variant of create_completion_log that writes the entry twice
LoggedTwice(db, task_instance_id, user_id, completed_at, trigger_type) ==
    [db EXCEPT !.log = @ \o << [task_instance_id |-> task_instance_id,
                                user_id |-> user_id,
                                completed_at |-> completed_at,
                                trigger_type |-> trigger_type],
                              [task_instance_id |-> task_instance_id,
                                user_id |-> user_id,
                                completed_at |-> completed_at,
                                trigger_type |-> trigger_type] >>]

\* create_completion_log
CreateCompletionLog(db, task_instance_id, user_id, completed_at, trigger_type) ==
    [db EXCEPT !.log = Append(@, [task_instance_id |-> task_instance_id,
                                  user_id |-> user_id,
                                  completed_at |-> completed_at,
                                  trigger_type |-> trigger_type])]

\* upsert_task_definition: every column of the row is overwritten, is_active
\* becomes True
UpsertTaskDefinition(definitions, dto) ==
    [definitions EXCEPT ![dto.name] =
        [known |-> TRUE, is_active |-> TRUE,
         category |-> dto.category,
         reproduction_period |-> dto.reproduction_period,
         pass_over_period |-> dto.pass_over_period,
         actors |-> dto.actors,
         overdue_behavior |-> dto.overdue_behavior,
         start_preferences |-> dto.start_preferences,
         task_days |-> dto.task_days]]

\* deactivate_task_definitions
DeactivateTaskDefinitions(definitions, active_names) ==
    [d \in DOMAIN definitions |->
        IF d \notin active_names
        THEN [definitions[d] EXCEPT !.is_active = FALSE]
        ELSE definitions[d]]

----------------------------------------------------------------------------
(* TaskManager: the pure part of each method.  A result carries the tables *)
(* and raised, TRUE when the method left by an exception; what was written *)
(* before the exception stays written (every crud call commits).           *)

Returned(db) == [inst |-> db.inst, log |-> db.log, raised |-> FALSE]
Raised(db) == [inst |-> db.inst, log |-> db.log, raised |-> TRUE]

\* _generate_start_date(instance, definition): [raised, value].  Line 80
\* reads definition.reproduction_period before anything else, so a call
\* without a definition leaves by AttributeError; unparsable preferences
\* leave by ValueError.
GenerateStartDate(instance, definition, at) ==
    IF definition = None
    THEN [raised |-> TRUE, value |-> NULL]
    ELSE LET def == definition[1]
             next_deadline == at + def.reproduction_period
             deadline_final == IF instance = None
                               THEN at + def.pass_over_period
                               ELSE instance[1].deadline_final
             end_date == Max(next_deadline, deadline_final)
         IN  IF ~PrefsParse(def.start_preferences)
             THEN [raised |-> TRUE, value |-> NULL]
             ELSE [raised |-> FALSE,
                   value |-> FindStartDatetime(def.start_preferences, end_date,
                                               def.task_days, at)]

\* A variant of lines 171-176 that does not wrap around the end of the list
NoWrapAround(actors, current_user_name) ==
    IF current_user_name # None /\ current_user_name[1] \in Range(actors)
    THEN LET current_index ==
                 SetMin({k \in DOMAIN actors : actors[k] = current_user_name[1]})
         IN  actors[IF current_index < Len(actors) THEN current_index + 1
                    ELSE current_index]
    ELSE actors[1]

\* A variant of lines 171-176 whose default is the last name of the list
LastNameByDefault(actors, current_user_name) ==
    IF current_user_name # None /\ current_user_name[1] \in Range(actors)
    THEN LET current_index ==
                 SetMin({k \in DOMAIN actors : actors[k] = current_user_name[1]})
         IN  actors[(current_index % Len(actors)) + 1]
    ELSE actors[Len(actors)]

\* the next user of the rotation, lines 171-176
NextUserName(actors, current_user_name) ==
    IF current_user_name # None /\ current_user_name[1] \in Range(actors)
    THEN LET current_index ==
                 SetMin({k \in DOMAIN actors : actors[k] = current_user_name[1]})
         IN  actors[(current_index % Len(actors)) + 1]
    ELSE actors[1]

\* A variant of the update that leaves allow_reassignment as it is
UpdateKeepingFlag(db, instance_id, kwargs, start_date) ==
    IF start_date.raised
    THEN Raised(db)
    ELSE Returned(UpdateTaskInstance(db, instance_id,
             [f \in (DOMAIN kwargs \ {"allow_reassignment"}) \cup {"start_date"} |->
                 IF f = "start_date" THEN start_date.value ELSE kwargs[f]]))

\* crud.update_task_instance(..., start_date=self._generate_start_date(...)):
\* the keyword arguments are evaluated before the call, so an exception of
\* _generate_start_date leaves before anything is written
UpdateWithStartDate(db, instance_id, kwargs, start_date) ==
    IF start_date.raised
    THEN Raised(db)
    ELSE Returned(UpdateTaskInstance(db, instance_id,
             [start_date |-> start_date.value] @@ kwargs))

\* variant: an instance is created without start date when the computation
\* of the start date raises
CreateWithoutStartDate(db, kwargs, start_date) ==
    Returned(CreateTaskInstance(db,
        [start_date |-> IF start_date.raised THEN NULL ELSE start_date.value] @@ kwargs))

\* crud.create_task_instance(..., start_date=self._generate_start_date(...))
CreateWithStartDate(db, kwargs, start_date) ==
    IF start_date.raised
    THEN Raised(db)
    ELSE Returned(CreateTaskInstance(db, [start_date |-> start_date.value] @@ kwargs))

\* A variant of _assign_to_next_user that assigns nobody
NobodyAssigned(db, registry, task_def_id, definition, current_user_name, at) ==
    Returned(db)

\* A variant of _assign_to_next_user that raises when the next user is not
\* registered
UnknownUserRaises(db, registry, task_def_id, definition, current_user_name, at) ==
    IF ~GetUserByName(registry, NextUserName(definition.actors, current_user_name))
    THEN Raised(db)
    ELSE CreateWithStartDate(db,
             [task_definition_id |-> task_def_id,
              assigned_user_id |-> NextUserName(definition.actors, current_user_name),
              assigned_at |-> at,
              deadline_repeat |-> at + definition.reproduction_period,
              deadline_final |-> at + definition.pass_over_period,
              status |-> STATUS_ACTIVE],
             [raised |-> FALSE, value |-> at])

\* A variant of lines 189-209 that creates an instance whatever was found
AlwaysCreate(db, already_existing_instance, next_user_name, task_def_id, definition, at) ==
    Returned(CreateTaskInstance(db,
        [task_definition_id |-> task_def_id,
         assigned_user_id |-> next_user_name,
         assigned_at |-> at,
         deadline_repeat |-> at + definition.reproduction_period,
         deadline_final |-> at + definition.pass_over_period,
         status |-> STATUS_ACTIVE,
         start_date |-> at]))

\* _assign_to_next_user, lines 189-209: the instance found for the next user
\* is overwritten, or an instance is created if none was found (0)
ReuseOrCreate(db, already_existing_instance, next_user_name, task_def_id, definition, at) ==
    IF already_existing_instance # 0
    THEN UpdateWithStartDate(db, already_existing_instance,
             [assigned_user_id |-> next_user_name,
              assigned_at |-> at,
              deadline_repeat |-> at + definition.reproduction_period,
              deadline_final |-> at + definition.pass_over_period,
              status |-> STATUS_ACTIVE,
              allow_reassignment |-> FALSE],
             GenerateStartDate(None, Some(definition), at))
    ELSE CreateWithStartDate(db,
             [task_definition_id |-> task_def_id,
              assigned_user_id |-> next_user_name,
              assigned_at |-> at,
              deadline_repeat |-> at + definition.reproduction_period,
              deadline_final |-> at + definition.pass_over_period,
              status |-> STATUS_ACTIVE],
             GenerateStartDate(None, Some(definition), at))

\* _assign_to_next_user
AssignToNextUser(db, registry, task_def_id, definition, current_user_name, at) ==
    IF ~GetUserByName(registry, NextUserName(definition.actors, current_user_name))
    THEN Returned(db)
    ELSE ReuseOrCreate(db,
             GetActiveTaskInstanceForUser(db, task_def_id,
                 NextUserName(definition.actors, current_user_name)),
             NextUserName(definition.actors, current_user_name),
             task_def_id, definition, at)

\* A variant of _reassign_to_user that hands the definition over to
\* _generate_start_date, so that the update is carried out
ReassignWithDefinition(db, instance_id, definition, at) ==
    UpdateWithStartDate(db, instance_id,
        [status |-> STATUS_ACTIVE,
         completed_at |-> NULL,
         assigned_at |-> at,
         deadline_repeat |-> at + definition.reproduction_period],
        GenerateStartDate(Some(db.inst[instance_id]), Some(definition), at))

\* _reassign_to_user: start_date=self._generate_start_date(instance) passes
\* no definition
ReassignToUser(db, instance_id, definition, at) ==
    UpdateWithStartDate(db, instance_id,
        [status |-> STATUS_ACTIVE,
         completed_at |-> NULL,
         assigned_at |-> at,
         deadline_repeat |-> at + definition.reproduction_period],
        GenerateStartDate(Some(db.inst[instance_id]), None, at))

\* A variant of lines 126-129 and 148-151 that never advances to the next
\* user
PassOverWithoutAdvance(db, registry, instance_id, definition, at) ==
    Returned(CreateCompletionLog(
        UpdateTaskInstance(db, instance_id, [status |-> STATUS_TERMINATED]),
        instance_id, db.inst[instance_id].assigned_user_id, at, TRIGGER_PASSED_OVER))

\* lines 126-129 and 148-151: terminate, log, advance if reassignable
PassOver(db, registry, instance_id, definition, at) ==
    LET instance == db.inst[instance_id]
        terminated == UpdateTaskInstance(db, instance_id, [status |-> STATUS_TERMINATED])
        logged == CreateCompletionLog(terminated, instance_id, instance.assigned_user_id,
                                      at, TRIGGER_PASSED_OVER)
    IN  IF instance.allow_reassignment
        THEN AssignToNextUser(logged, registry, instance.task_definition_id, definition,
                              Some(instance.assigned_user_id), at)
        ELSE Returned(logged)

\* lines 159-161: the deadline of the current instance is extended, unless
\* the advance left by an exception
Extended(assigned, instance_id, definition, at) ==
    IF assigned.raised
    THEN assigned
    ELSE Returned(UpdateTaskInstance(assigned, instance_id,
             [deadline_final |-> at + definition.pass_over_period,
              allow_reassignment |-> FALSE]))

\* A variant of lines 153-161 that never advances to the next user
KeepWithoutChange(db, registry, instance_id, definition, at) ==
    Extended(Returned(db), instance_id, definition, at)

\* lines 153-161
KeepAndChange(db, registry, instance_id, definition, at) ==
    IF db.inst[instance_id].allow_reassignment
    THEN Extended(AssignToNextUser(db, registry, db.inst[instance_id].task_definition_id,
                                   definition, Some(db.inst[instance_id].assigned_user_id),
                                   at),
                  instance_id, definition, at)
    ELSE Extended(Returned(db), instance_id, definition, at)

\* A variant of lines 163-167 that closes the instance to reassignment too
KeepAndClose(db, instance_id, definition, at) ==
    Returned(UpdateTaskInstance(db, instance_id,
        [deadline_final |-> at + definition.pass_over_period,
         allow_reassignment |-> FALSE]))

\* lines 163-167
Keep(db, instance_id, definition, at) ==
    Returned(UpdateTaskInstance(db, instance_id,
        [deadline_final |-> at + definition.pass_over_period]))

\* A variant of _check_and_update_instance_state that extends the deadline
\* without looking at it
AlwaysExtended(db, registry, instance_id, definition, at) ==
    Keep(db, instance_id, definition, at)

\* A variant of _check_and_update_instance_state that terminates an
\* instance from the instant of its deadline_final on
TerminatedWhenDue(db, registry, instance_id, definition, at) ==
    IF at >= db.inst[instance_id].deadline_final
    THEN Returned(CreateCompletionLog(
             UpdateTaskInstance(db, instance_id, [status |-> STATUS_TERMINATED]),
             instance_id, db.inst[instance_id].assigned_user_id, at,
             TRIGGER_PASSED_OVER))
    ELSE Returned(db)

\* _check_and_update_instance_state
CheckAndUpdateInstanceState(db, registry, instance_id, definition, at) ==
    LET instance == db.inst[instance_id]
    IN  IF instance.status = STATUS_COMPLETED
        THEN IF at > instance.deadline_final
             THEN PassOver(db, registry, instance_id, definition, at)
             ELSE IF at > instance.completed_at + definition.reproduction_period
             THEN ReassignToUser(db, instance_id, definition, at)
             ELSE Returned(db)
        ELSE IF instance.status = STATUS_ACTIVE /\ at > instance.deadline_final
        THEN CASE definition.overdue_behavior = BEHAVIOR_CHANGE ->
                    PassOver(db, registry, instance_id, definition, at)
               [] definition.overdue_behavior = BEHAVIOR_KEEP_AND_CHANGE ->
                    KeepAndChange(db, registry, instance_id, definition, at)
               [] definition.overdue_behavior = BEHAVIOR_KEEP ->
                    Keep(db, instance_id, definition, at)
               [] OTHER -> Returned(db)
        ELSE Returned(db)

----------------------------------------------------------------------------
(* What the sheet may hold: the rows read by get_task_definitions *)

Behaviors == {BEHAVIOR_KEEP, BEHAVIOR_CHANGE, BEHAVIOR_KEEP_AND_CHANGE}

\* TaskDefinitionDTO
Row(name, behavior, actors, reproduction, pass_over, preferences, days) ==
    [name |-> name, category |-> "Maison", reproduction_period |-> reproduction,
     pass_over_period |-> pass_over, actors |-> actors,
     overdue_behavior |-> behavior, start_preferences |-> preferences,
     task_days |-> days]

\* The sheets of one task: the task is absent, or present with one of the
\* rows.  A sheet is the function from the names present to their rows.
SheetsOf(name, rows) == {<<>>} \cup {(name :> r) : r \in rows}

\* The plain rows: every actor of the roster is registered, the periods are
\* positive or zero, the preferences parse.
PlainRows ==
    {Row("t1", b, a, 0, 1, <<>>, 1) : b \in Behaviors, a \in {<<"A">>, <<"A", "B">>}}

\* The faulty rows: a roster naming a user who is not registered, and a
\* preference that does not parse ("midi" is no %H:%M:%S time).
FaultyRows ==
    {Row("t1", BEHAVIOR_CHANGE, <<"A", "C">>, 0, 1, <<>>, 1),
     Row("t1", BEHAVIOR_CHANGE, <<"A">>, 0, 1, << <<"Lundi", "midi">> >>, 1)}

NoDefinition ==
    [known |-> FALSE, is_active |-> FALSE, category |-> "", reproduction_period |-> 0,
     pass_over_period |-> 0, actors |-> <<>>, overdue_behavior |-> "",
     start_preferences |-> <<>>, task_days |-> NULL]

----------------------------------------------------------------------------
(* The state machine: main_loop (app/main.py) and what happens around it *)

db == [inst |-> inst, log |-> log]

\* the value of rot while the engine runs
NoRotation == [actors |-> <<>>, start |-> None, current |-> None, applied |-> 0]

\* the values of calls and lock while one engine runs alone
NoCalls == <<>>
NoLock == [serialized |-> FALSE, holder |-> <<>>]

\* the value of find while no call of find_start_datetime is followed
NoFind == <<>>

Init ==
    /\ now = 0
    /\ users \in {[n \in UserNames |-> TRUE], [n \in UserNames |-> n = "A"]}
    /\ defs = [d \in DefNames |-> NoDefinition]
    /\ inst = <<>>
    /\ log = <<>>
    /\ gtasks = {}
    /\ pc = "idle"
    /\ todoDefs = {}
    /\ todoInst = {}
    /\ todoUsers = {}
    /\ cycle0 = <<>>
    /\ quiet = TRUE
    /\ rot = NoRotation
    /\ calls = NoCalls
    /\ lock = NoLock
    /\ find = NoFind

\* Time passes between two runs of main_loop (a run is shorter than one
\* clock unit).
Tick ==
    /\ pc = "idle"
    /\ now < MaxTime
    /\ now' = now + 1
    /\ UNCHANGED <<users, defs, inst, log, gtasks, pc, todoDefs, todoInst, todoUsers, cycle0, quiet, rot, calls, lock, find>>

\* main.py initial_auth_flow: update_user_credentials for a user without
UpdateUserCredentials(u) ==
    /\ pc = "idle"
    /\ ~users[u]
    /\ users' = [users EXCEPT ![u] = TRUE]
    /\ UNCHANGED <<now, defs, inst, log, gtasks, pc, todoDefs, todoInst, todoUsers, cycle0, quiet, rot, calls, lock, find>>

\* sync_task_definitions: the rows read from the sheet, one per name
SyncTaskDefinitions(definitions, names, row) ==
    LET upserted == [d \in DOMAIN definitions |->
                        IF d \in names
                        THEN UpsertTaskDefinition(definitions, row[d])[d]
                        ELSE definitions[d]]
    IN  DeactivateTaskDefinitions(upserted, names)

\* main_loop steps 3 and 4: the definitions are synchronised with the sheet
\* as it is now, process_all_tasks is entered and _assign_new_tasks reads
\* the active definitions (task_manager.py line 41)
MainLoop(names, row) ==
    /\ pc = "idle"
    /\ Len(inst) <= MaxRows
    /\ Len(log) <= MaxRows
    /\ defs' = SyncTaskDefinitions(defs, names, row)
    /\ pc' = "ensure"
    /\ todoDefs' = GetActiveTaskDefinitions(defs')
    /\ cycle0' = db
    /\ quiet' = TRUE
    /\ UNCHANGED <<now, users, inst, log, gtasks, todoInst, todoUsers, rot, calls, lock, find>>

\* A variant of lines 54-55 that takes the instance of the earliest
\* deadline_final
FirstByDeadlineFinal(rows) ==
    {i \in rows : \A j \in rows : inst[i].deadline_final <= inst[j].deadline_final}

\* the rows sorted(instances, key=deadline_final)[-1] can be: the query has
\* no ORDER BY, so any row of the latest deadline_final
LastByDeadlineFinal(rows) ==
    {i \in rows : \A j \in rows : inst[j].deadline_final <= inst[i].deadline_final}

\* A variant of line 56 that writes nothing
LeftClosed(tables, instance_id) == tables

\* line 56: update_task_instance(allow_reassignment=True)
EnableReassignment(tables, instance_id) ==
    UpdateTaskInstance(tables, instance_id, [allow_reassignment |-> TRUE])

\* one turn of the loop of _assign_new_tasks (lines 42-56); an exception of
\* _assign_to_next_user leaves process_all_tasks and main_loop and is
\* caught by main()
AssignNewTasks(d) ==
    /\ pc = "ensure"
    /\ d \in todoDefs
    /\ LET instances == GetActiveTaskInstanceForDefinition(db, d)
       IN  IF instances = {}
           THEN \E r \in {AssignToNextUser(db, users, d, defs[d], None, now)} :
                    /\ inst' = r.inst
                    /\ log' = r.log
                    /\ pc' = IF r.raised THEN "idle" ELSE "ensure"
                    /\ todoDefs' = IF r.raised THEN {} ELSE todoDefs \ {d}
                    /\ cycle0' = IF r.raised THEN <<>> ELSE cycle0
           ELSE /\ IF \A i \in instances : ~inst[i].allow_reassignment
                   THEN \E i \in LastByDeadlineFinal(instances) :
                            inst' = EnableReassignment(db, i).inst
                   ELSE inst' = inst
                /\ log' = log
                /\ pc' = "ensure"
                /\ todoDefs' = todoDefs \ {d}
                /\ cycle0' = cycle0
    /\ UNCHANGED <<now, users, defs, gtasks, todoInst, todoUsers, quiet, rot, calls, lock, find>>

\* _process_active_instances reads the instances to visit (line 60)
ProcessActiveInstances ==
    /\ pc = "ensure"
    /\ todoDefs = {}
    /\ pc' = "deadline"
    /\ todoInst' = GetAllActiveTaskInstances(db, defs)
    /\ UNCHANGED <<now, users, defs, inst, log, gtasks, todoDefs, todoUsers, cycle0, quiet, rot, calls, lock, find>>

\* Variant of the turn: the credentials of the user are not looked at
ProcessInstanceOfAnyUser(i) ==
    /\ pc = "deadline"
    /\ i \in todoInst
    /\ todoInst' = todoInst \ {i}
    /\ \E r \in {CheckAndUpdateInstanceState(db, users, i,
                    defs[inst[i].task_definition_id], now)} :
           /\ inst' = r.inst
           /\ log' = r.log
    /\ quiet' = (quiet /\ inst[i].status # STATUS_COMPLETED
                       /\ ~(now > inst[i].deadline_final))
    /\ UNCHANGED <<now, users, defs, gtasks, pc, todoDefs, todoUsers, cycle0, rot, calls, lock, find>>

\* one turn of the loop of _process_active_instances (lines 63-72).  The
\* session expires its objects at every commit, so the row is read as it is
\* now; an exception of the evaluation is logged and the loop goes on.
ProcessInstance(i) ==
    /\ pc = "deadline"
    /\ i \in todoInst
    /\ todoInst' = todoInst \ {i}
    /\ IF ~users[inst[i].assigned_user_id]
       THEN UNCHANGED <<inst, log, quiet>>
       ELSE /\ \E r \in {CheckAndUpdateInstanceState(db, users, i,
                            defs[inst[i].task_definition_id], now)} :
                   /\ inst' = r.inst
                   /\ log' = r.log
            /\ quiet' = (quiet /\ inst[i].status # STATUS_COMPLETED
                               /\ ~(now > inst[i].deadline_final))
    /\ UNCHANGED <<now, users, defs, gtasks, pc, todoDefs, todoUsers, cycle0, rot, calls, lock, find>>

\* process_all_tasks returns; main_loop step 5 reads the users with
\* credentials
ProcessAllTasksReturn ==
    /\ pc = "deadline"
    /\ todoInst = {}
    /\ pc' = "gtasks"
    /\ todoUsers' = {u \in DOMAIN users : users[u]}
    /\ cycle0' = <<>>
    /\ quiet' = TRUE
    /\ UNCHANGED <<now, users, defs, inst, log, gtasks, todoDefs, todoInst, rot, calls, lock, find>>

\* the items of instance i on a board; an item carries the instance uuid
\* in its notes (sync_id) and lies in the task list of a category (list)
GtaskOf(board, i) == {g \in board : g.sync_id = i}

\* the items sync_gtasks_state sees: it reads, for each instance, the task
\* list of the category its definition has now (lines 224-235)
CurrentBoard(board) ==
    {g \in board : /\ g.sync_id \in DOMAIN inst
                   /\ g.list = defs[inst[g.sync_id].task_definition_id].category}

\* the log entries of the instances the board reports completed, by row id
RECURSIVE LogCompletions(_, _, _)
LogCompletions(entries, ids, board) ==
    IF ids = {} THEN entries
    ELSE LET i == SetMin(ids)
             g == CHOOSE x \in GtaskOf(board, i) : TRUE
         IN  LogCompletions(Append(entries, [task_instance_id |-> i,
                                             user_id |-> inst[i].assigned_user_id,
                                             completed_at |-> g.completed,
                                             trigger_type |-> TRIGGER_API]),
                            ids \ {i}, board)

\* A variant of line 242 that does not wait for the start date
StartDateIgnored(instance, at) == TRUE

\* line 242: if instance.start_date < now
StartDatePassed(instance, at) == instance.start_date < at

\* sync_gtasks_state for one user (the calls to the board succeed).  The
\* id of an item (gtasks_task_id) is held as the task list the item was
\* created in, None when the column is empty: an instance has at most one
\* item in a list.
SyncGtasksState(u) ==
    /\ pc = "gtasks"
    /\ u \in todoUsers
    /\ todoUsers' = todoUsers \ {u}
    /\ LET user_instances == {i \in DOMAIN inst : /\ inst[i].assigned_user_id = u
                                                  /\ inst[i].status = STATUS_ACTIVE}
           seen == CurrentBoard(gtasks)
           \* Case 1: no item in the list and the start date is passed
           to_create == {i \in user_instances :
                            GtaskOf(seen, i) = {} /\ StartDatePassed(inst[i], now)}
           found == {i \in user_instances : GtaskOf(seen, i) # {}}
           \* Case 2: the item is completed on the board
           completed == {i \in found :
                            \E g \in GtaskOf(seen, i) : g.status = "completed"}
           \* lines 243-250: the id of the item created, or of the item
           \* found if the instance has none
           with_id == [i \in DOMAIN inst |->
                         IF i \in to_create \/ (i \in found /\ inst[i].gtasks_task_id = None)
                         THEN [inst[i] EXCEPT !.gtasks_task_id =
                                  Some(defs[inst[i].task_definition_id].category)]
                         ELSE inst[i]]
           inst1 == [i \in DOMAIN inst |->
                       IF i \in completed
                       THEN [with_id[i] EXCEPT
                                !.status = STATUS_COMPLETED,
                                !.completed_at =
                                    (CHOOSE g \in GtaskOf(seen, i) : TRUE).completed]
                       ELSE with_id[i]]
           board1 == gtasks \cup {[sync_id |-> i, status |-> "needsAction",
                                   completed |-> NULL,
                                   list |-> defs[inst[i].task_definition_id].category] :
                                      i \in to_create}
           \* Case 3: completed or terminated in the database, still an id
           inactive_instances == {i \in DOMAIN inst1 :
                                     /\ inst1[i].assigned_user_id = u
                                     /\ inst1[i].status # STATUS_ACTIVE
                                     /\ inst1[i].gtasks_task_id # None}
       IN  /\ inst' = [i \in DOMAIN inst |->
                          IF i \in inactive_instances
                          THEN [inst1[i] EXCEPT !.gtasks_task_id = None]
                          ELSE inst1[i]]
           /\ log' = LogCompletions(log, completed, seen)
           \* delete_task(list of the category, id) removes the item of
           \* that id if it lies in that list
           /\ gtasks' = {g \in board1 :
                            ~(/\ g.sync_id \in inactive_instances
                              /\ g.list = defs[inst[g.sync_id].task_definition_id].category
                              /\ Some(g.list) = inst1[g.sync_id].gtasks_task_id)}
    /\ UNCHANGED <<now, users, defs, pc, todoDefs, todoInst, cycle0, quiet, rot, calls, lock, find>>

\* main_loop returns
MainLoopReturn ==
    /\ pc = "gtasks"
    /\ todoUsers = {}
    /\ pc' = "idle"
    /\ UNCHANGED <<now, users, defs, inst, log, gtasks, todoDefs, todoInst, todoUsers, cycle0, quiet, rot, calls, lock, find>>

\* the actor ticks the item off on the board
ActorCompletes(i) ==
    /\ pc = "idle"
    /\ \E g \in GtaskOf(gtasks, i) :
           /\ g.status = "needsAction"
           /\ gtasks' = (gtasks \ {g}) \cup
                  {[g EXCEPT !.status = "completed", !.completed = now]}
    /\ UNCHANGED <<now, users, defs, inst, log, pc, todoDefs, todoInst, todoUsers, cycle0, quiet, rot, calls, lock, find>>

\* the actor deletes the item on the board
ActorDeletes(i) ==
    /\ pc = "idle"
    /\ \E g \in GtaskOf(gtasks, i) : gtasks' = gtasks \ {g}
    /\ UNCHANGED <<now, users, defs, inst, log, pc, todoDefs, todoInst, todoUsers, cycle0, quiet, rot, calls, lock, find>>

\* one step of the program or of its environment, the sheet being one of
\* sheets when main_loop reads it
NextWith(sheets) ==
    \/ Tick
    \/ \E u \in UserNames : UpdateUserCredentials(u)
    \/ \E row \in sheets : MainLoop(DOMAIN row, row)
    \/ \E d \in DefNames : AssignNewTasks(d)
    \/ ProcessActiveInstances
    \/ \E i \in DOMAIN inst : ProcessInstance(i)
    \/ ProcessAllTasksReturn
    \/ \E u \in UserNames : SyncGtasksState(u)
    \/ MainLoopReturn
    \/ \E i \in DOMAIN inst : ActorCompletes(i)
    \/ \E i \in DOMAIN inst : ActorDeletes(i)

Next == NextWith(SheetsOf("t1", PlainRows \cup FaultyRows))

Spec == Init /\ [][Next]_vars

----------------------------------------------------------------------------
(* The sheet with signed durations: human_to_iso_duration reads "-1 jour" *)

\* The rows whose pass-over period is "0 jour" or "-1 jour"
SignedRows ==
    {Row("t1", BEHAVIOR_KEEP, <<"A", "B">>, 0, 0, <<>>, 1),
     Row("t1", BEHAVIOR_KEEP, <<"A", "B">>, 0, 0 - DayLen, <<>>, 1),
     Row("t1", BEHAVIOR_CHANGE, <<"A", "B">>, 0, 0 - DayLen, <<>>, 1)}

NextSigned == NextWith(SheetsOf("t1", SignedRows))

SpecSigned == Init /\ [][NextSigned]_vars

\* The sheet of a "Garder et changer" task: a roster of one, a roster of
\* two, the rosters naming a user who is not registered and a preference
\* that does not parse
KeepAndChangeRows ==
    {Row("t1", BEHAVIOR_KEEP_AND_CHANGE, <<"A">>, 0, 1, <<>>, 1),
     Row("t1", BEHAVIOR_KEEP_AND_CHANGE, <<"A", "B">>, 0, 1, <<>>, 1),
     Row("t1", BEHAVIOR_KEEP_AND_CHANGE, <<"A", "C">>, 0, 1, <<>>, 1),
     Row("t1", BEHAVIOR_KEEP_AND_CHANGE, <<"C", "A">>, 0, 1, <<>>, 1),
     Row("t1", BEHAVIOR_KEEP_AND_CHANGE, <<"A", "B">>, 0, 1, << <<"Lundi", "midi">> >>, 1)}

NextKeepAndChange == NextWith(SheetsOf("t1", KeepAndChangeRows))

SpecKeepAndChange == Init /\ [][NextKeepAndChange]_vars

\* The sheet of a "Changer" task that is not edited while the program runs:
\* a roster of two registered users, a pass-over period of a day's half or
\* of nothing, preferences that parse or not
ProgressRows ==
    {Row("t1", BEHAVIOR_CHANGE, <<"A", "B">>, 0, 1, <<>>, 1),
     Row("t1", BEHAVIOR_CHANGE, <<"A", "B">>, 0, 0, <<>>, 1),
     Row("t1", BEHAVIOR_CHANGE, <<"A", "B">>, 0, 1, << <<"Lundi", "midi">> >>, 1)}

\* the sheets that read as the definitions stored already
UneditedSheets(rows) ==
    {s \in {("t1" :> r) : r \in rows} :
        defs["t1"].known => SyncTaskDefinitions(defs, {"t1"}, s) = defs}

NextProgress == NextWith(UneditedSheets(ProgressRows))

\* a step of the cycle of main_loop over the sheet that is not edited
CycleStep ==
    \/ \E row \in UneditedSheets(ProgressRows) : MainLoop(DOMAIN row, row)
    \/ \E d \in DefNames : AssignNewTasks(d)
    \/ ProcessActiveInstances
    \/ \E i \in DOMAIN inst : ProcessInstance(i)
    \/ ProcessAllTasksReturn
    \/ \E u \in UserNames : SyncGtasksState(u)
    \/ MainLoopReturn

\* a step is a step of the cycle exactly when it moves the position of
\* main_loop: every step of CycleStep changes pc or takes a name out of a
\* todo set, and no other step of the program does
CycleMoves ==
    \/ pc' # pc
    \/ todoDefs' # todoDefs
    \/ todoInst' # todoInst
    \/ todoUsers' # todoUsers

\* a step of the cycle is possible: a cycle that runs can always go on, and
\* main_loop can start one while the tables are within their bound
CycleEnabled == pc # "idle" \/ (Len(inst) <= MaxRows /\ Len(log) <= MaxRows)

\* main() runs main_loop every poll interval for ever and each step of a
\* cycle returns, so a cycle that can start or go on does: weak fairness of
\* CycleStep, WF_vars(CycleStep), written out with CycleEnabled for
\* ENABLED <<CycleStep>>_vars and CycleMoves for <<CycleStep>>_vars.  The
\* clock advances between two cycles whatever the cycles do, up to the bound
\* of the clock: strong fairness of Tick, which a running cycle disables.
Scheduling ==
    /\ SF_vars(Tick)
    /\ ([]<>(~CycleEnabled)) \/ ([]<><<CycleMoves>>_vars)

SpecProgress == Init /\ [][NextProgress]_vars /\ Scheduling

\* The sheet of two tasks that are overdue one instant after their
\* assignment; the start preference of the first is edited into a token that
\* does not parse, or back
OverdueTaskSheets ==
    {("t1" :> Row("t1", BEHAVIOR_CHANGE, <<"A">>, 0, 0, p, 1))
         @@ ("t2" :> Row("t2", BEHAVIOR_KEEP, <<"A">>, 0, 0, <<>>, 1)) :
        p \in {<<>>, << <<"Lundi", "midi">> >>}}

NextTwoTasksProgress == NextWith(OverdueTaskSheets)

SpecTwoTasksProgress == Init /\ [][NextTwoTasksProgress]_vars /\ Scheduling

\* The sheet of a task whose roster starts with B, the user who may have no
\* stored credentials, and that is overdue one instant after its assignment,
\* or of a task that is kept by A and handed on to B
CredentialRows ==
    {Row("t1", BEHAVIOR_CHANGE, <<"B", "A">>, 0, 0, <<>>, 1),
     Row("t1", BEHAVIOR_KEEP_AND_CHANGE, <<"A", "B">>, 0, 1, <<>>, 1)}

NextCredentials == NextWith(SheetsOf("t1", CredentialRows))

SpecCredentials == Init /\ [][NextCredentials]_vars

\* The sheet of a task that starts at 12:00:00 with no lead day: the start
\* date of an instance assigned at 00:00:00 lies after its assignment.  The
\* task is in the category "Maison" or in the category "Jardin".
BoardRows ==
    {Row("t1", BEHAVIOR_KEEP, <<"A">>, 0, 1, << <<"12:00:00">> >>, 0),
     Row("t1", BEHAVIOR_CHANGE, <<"A", "B">>, 0, 1, << <<"12:00:00">> >>, 0),
     [Row("t1", BEHAVIOR_KEEP, <<"A">>, 0, 1, << <<"12:00:00">> >>, 0)
         EXCEPT !.category = "Jardin"]}

NextBoard == NextWith(SheetsOf("t1", BoardRows))

SpecBoard == Init /\ [][NextBoard]_vars

\* The sheets with two tasks: both plain, or the first with a preference
\* that does not parse.
FirstTaskRow == Row("t1", BEHAVIOR_CHANGE, <<"A", "B">>, 0, 1, <<>>, 1)

SecondTaskRow == Row("t2", BEHAVIOR_KEEP, <<"A">>, 0, 1, <<>>, 1)

TwoTaskSheets ==
    {("t1" :> FirstTaskRow) @@ ("t2" :> SecondTaskRow),
     ("t1" :> [FirstTaskRow EXCEPT !.start_preferences = << <<"Lundi", "midi">> >>])
         @@ ("t2" :> SecondTaskRow)}

NextTwoTasks == NextWith(TwoTaskSheets)

SpecTwoTasks == Init /\ [][NextTwoTasks]_vars

\* the tables of a result
Tables(r) == [inst |-> r.inst, log |-> r.log]

\* _process_active_instances over the instances todo, in the order of their
\* ids, at the instant now with the users and the definitions as they are
RECURSIVE RunProcessActiveInstances(_, _)
RunProcessActiveInstances(tables, todo) ==
    IF todo = {} THEN tables
    ELSE IF ~users[tables.inst[SetMin(todo)].assigned_user_id]
    THEN RunProcessActiveInstances(tables, todo \ {SetMin(todo)})
    ELSE RunProcessActiveInstances(
             Tables(CheckAndUpdateInstanceState(tables, users, SetMin(todo),
                        defs[tables.inst[SetMin(todo)].task_definition_id], now)),
             todo \ {SetMin(todo)})

----------------------------------------------------------------------------
(* The rotation on its own: lines 171-176 applied again and again *)

RosterNames == {"A", "B", "C"}

\* the lists of 1 to MaxRoster names
Rosters == UNION {[1..n -> RosterNames] : n \in 1..MaxRoster}

\* a roster and the user the rotation starts from: a name of the roster or
\* not, or no user at all
InitRotation ==
    /\ now = 0
    /\ users = [n \in UserNames |-> TRUE]
    /\ defs = [d \in DefNames |-> NoDefinition]
    /\ inst = <<>>
    /\ log = <<>>
    /\ gtasks = {}
    /\ pc = "rotation"
    /\ todoDefs = {}
    /\ todoInst = {}
    /\ todoUsers = {}
    /\ cycle0 = <<>>
    /\ quiet = TRUE
    /\ calls = NoCalls
    /\ lock = NoLock
    /\ find = NoFind
    /\ \E actors \in Rosters :
       \E start \in {None} \cup {Some(n) : n \in RosterNames \cup {"Z"}} :
           rot = [actors |-> actors, start |-> start, current |-> start, applied |-> 0]

\* the next user of the user reached
ApplyNextUser ==
    /\ pc = "rotation"
    /\ rot.applied < Len(rot.actors)
    /\ rot' = [rot EXCEPT !.current = Some(NextUserName(rot.actors, rot.current)),
                          !.applied = @ + 1]
    /\ UNCHANGED <<now, users, defs, inst, log, gtasks, pc, todoDefs, todoInst,
                   todoUsers, cycle0, quiet, calls, lock, find>>

NextRotation == ApplyNextUser

SpecRotation == InitRotation /\ [][NextRotation]_vars

----------------------------------------------------------------------------
(* The assignment on its own: _assign_to_next_user applied once to tables *)
(* as its callers can hand them over                                       *)

\* the rows of instances of the task: every user, status and flag
InstanceRows ==
    {[task_definition_id |-> "t1", assigned_user_id |-> u,
      gtasks_task_id |-> None, assigned_at |-> 0, deadline_repeat |-> 0,
      deadline_final |-> 1,
      completed_at |-> IF s = STATUS_COMPLETED THEN 0 ELSE NULL,
      status |-> s, start_date |-> 0, allow_reassignment |-> a] :
        u \in UserNames,
        s \in {STATUS_ACTIVE, STATUS_COMPLETED, STATUS_TERMINATED},
        a \in BOOLEAN}

\* the tables of 0 to MaxRows instances with at most one non-terminated
\* instance for a user
InstanceTables ==
    {t \in UNION {[1..n -> InstanceRows] : n \in 0..MaxRows} :
        \A i, j \in DOMAIN t :
            (/\ t[i].status # STATUS_TERMINATED
             /\ t[j].status # STATUS_TERMINATED
             /\ t[i].assigned_user_id = t[j].assigned_user_id) => i = j}

\* the rows of the task: the rosters, the preferences that parse or not
AssignmentRows ==
    {Row("t1", BEHAVIOR_CHANGE, a, 0, 1, p, 1) :
        a \in {<<"A">>, <<"A", "B">>, <<"A", "C">>},
        p \in {<<>>, << <<"Lundi", "midi">> >>}}

\* The call of line 46 passes no user and finds no non-terminated instance
\* of the definition; the calls of lines 129, 151 and 158 pass the user of
\* an instance of the definition.
InitAssignment ==
    /\ now = 2
    /\ users = [n \in UserNames |-> TRUE]
    /\ gtasks = {}
    /\ log = <<>>
    /\ pc = "assign"
    /\ todoDefs = {}
    /\ todoInst = {}
    /\ todoUsers = {}
    /\ cycle0 = <<>>
    /\ quiet = TRUE
    /\ calls = NoCalls
    /\ lock = NoLock
    /\ find = NoFind
    /\ \E row \in AssignmentRows :
           /\ defs = [d \in DefNames |->
                         IF d = "t1" THEN UpsertTaskDefinition(
                                              [n \in DefNames |-> NoDefinition], row)[d]
                         ELSE NoDefinition]
           /\ inst \in InstanceTables
           /\ \E current \in {None} \cup {Some(n) : n \in UserNames} :
                  /\ IF current = None
                     THEN \A i \in DOMAIN inst : inst[i].status = STATUS_TERMINATED
                     ELSE \E i \in DOMAIN inst : inst[i].assigned_user_id = current[1]
                  /\ rot = [actors |-> row.actors, start |-> current,
                            current |-> current, applied |-> 0]

\* _assign_to_next_user(definition, current_user_name)
ApplyAssignToNextUser ==
    /\ pc = "assign"
    /\ \E r \in {AssignToNextUser(db, users, "t1", defs["t1"], rot.start, now)} :
           /\ inst' = r.inst
           /\ log' = r.log
           /\ pc' = IF r.raised THEN "raised" ELSE "returned"
    /\ rot' = [rot EXCEPT !.applied = 1]
    /\ UNCHANGED <<now, users, defs, gtasks, todoDefs, todoInst, todoUsers, cycle0, quiet, calls, lock, find>>

NextAssignment == ApplyAssignToNextUser

SpecAssignment == InitAssignment /\ [][NextAssignment]_vars

----------------------------------------------------------------------------
(* Two engines at once: two calls of _assign_to_next_user on the same      *)
(* tables, each in two steps, the lookup of line 188 and the write of      *)
(* lines 189-209.  The repository serialises the calls for one pair of a   *)
(* definition and a user, or it does not.                                  *)

Calls == {"first", "second"}

\* the arguments a call can have on the tables, as in InitAssignment
CallsOn(tables) ==
    {c \in [Calls -> {[current |-> u, at |-> "start", found |-> 0] :
                         u \in {None} \cup {Some(n) : n \in UserNames}}] :
        \A k \in Calls :
            IF c[k].current = None
            THEN \A i \in DOMAIN tables : tables[i].status = STATUS_TERMINATED
            ELSE \E i \in DOMAIN tables : tables[i].assigned_user_id = c[k].current[1]}

InitOverlap ==
    /\ now = 2
    /\ users = [n \in UserNames |-> TRUE]
    /\ defs = [d \in DefNames |->
                  IF d = "t1" THEN UpsertTaskDefinition(
                                       [n \in DefNames |-> NoDefinition], FirstTaskRow)[d]
                  ELSE NoDefinition]
    /\ inst \in InstanceTables
    /\ log = <<>>
    /\ gtasks = {}
    /\ pc = "overlap"
    /\ todoDefs = {}
    /\ todoInst = {}
    /\ todoUsers = {}
    /\ cycle0 = <<>>
    /\ quiet = TRUE
    /\ rot = NoRotation
    /\ calls \in CallsOn(inst)
    /\ lock \in {[serialized |-> s, holder |-> [n \in UserNames |-> "free"]] :
                    s \in BOOLEAN}
    /\ find = NoFind

\* the user a call assigns to, lines 171-176
NextUserOfCall(c) == NextUserName(defs["t1"].actors, calls[c].current)

\* lines 171-188 of a call: the next user is resolved and looked up, and
\* the non-terminated instance of that user is looked up.  A repository
\* that serialises lets the call through when no other call is between
\* its lookup and its write for the same pair.
FindExisting(c) ==
    /\ pc = "overlap"
    /\ calls[c].at = "start"
    /\ IF ~GetUserByName(users, NextUserOfCall(c))
       THEN /\ calls' = [calls EXCEPT ![c].at = "done"]
            /\ lock' = lock
       ELSE /\ lock.serialized => lock.holder[NextUserOfCall(c)] = "free"
            /\ lock' = IF lock.serialized
                       THEN [lock EXCEPT !.holder[NextUserOfCall(c)] = c]
                       ELSE lock
            /\ calls' = [calls EXCEPT
                            ![c].at = "found",
                            ![c].found = GetActiveTaskInstanceForUser(
                                             db, "t1", NextUserOfCall(c))]
    /\ UNCHANGED <<now, users, defs, inst, log, gtasks, pc, todoDefs, todoInst,
                   todoUsers, cycle0, quiet, rot, find>>

\* lines 189-209 of a call: the write, with the instance found at the lookup
WriteInstance(c) ==
    /\ pc = "overlap"
    /\ calls[c].at = "found"
    /\ \E r \in {ReuseOrCreate(db, calls[c].found, NextUserOfCall(c), "t1",
                                defs["t1"], now)} :
           /\ inst' = r.inst
           /\ log' = r.log
    /\ calls' = [calls EXCEPT ![c].at = "done"]
    /\ lock' = IF lock.serialized
               THEN [lock EXCEPT !.holder[NextUserOfCall(c)] = "free"]
               ELSE lock
    /\ UNCHANGED <<now, users, defs, gtasks, pc, todoDefs, todoInst, todoUsers,
                   cycle0, quiet, rot, find>>

NextOverlap == \E c \in Calls : FindExisting(c) \/ WriteInstance(c)

SpecOverlap == InitOverlap /\ [][NextOverlap]_vars

----------------------------------------------------------------------------
(* find_start_datetime on its own, its loop followed pattern by pattern *)

\* the tokens of the preference lists: day-only, time-only, day and time,
\* and one that _parse_preference rejects
PrefTokens ==
    {<<"Lundi">>, <<"Vendredi">>, <<"12:00:00">>,
     <<"Lundi", "12:00:00">>, <<"Vendredi", "00:00:00">>, <<"midi">>}

PrefLists == UNION {[1..n -> PrefTokens] : n \in 0..MaxPrefs}

\* the arguments of a call: without end_date or without nb_days at any
\* instant of one week, or with both for every end_date of one week
FindArguments ==
    {[prefs |-> l, end_date |-> a[1], nb_days |-> a[2], now |-> t] :
        l \in PrefLists, t \in 0..(Week - 1),
        a \in {<<NULL, NULL>>, <<NULL, 1>>, <<Week, NULL>>}}
    \cup {[prefs |-> l, end_date |-> e, nb_days |-> n, now |-> 0] :
            l \in PrefLists, e \in 0..(Week - 1), n \in 0..MaxLead}

InitFind ==
    /\ now = 0
    /\ users = [n \in UserNames |-> TRUE]
    /\ defs = [d \in DefNames |-> NoDefinition]
    /\ inst = <<>>
    /\ log = <<>>
    /\ gtasks = {}
    /\ pc = "find"
    /\ todoDefs = {}
    /\ todoInst = {}
    /\ todoUsers = {}
    /\ cycle0 = <<>>
    /\ quiet = TRUE
    /\ rot = NoRotation
    /\ calls = NoCalls
    /\ lock = NoLock
    /\ \E a \in FindArguments :
           find = [at |-> "start", arg |-> a, todo |-> {}, best |-> <<>>,
                   result |-> NULL]

\* variant: the latest of the next occurrences
LatestCandidate(patterns, at) ==
    LET candidates == {NextOccurrenceAfter(at, p[1], p[2]) : p \in patterns}
    IN  IF candidates # {} THEN CHOOSE x \in candidates : \A y \in candidates : y <= x
        ELSE at

\* lines 162-165, and line 147: the earliest next occurrence after now, or
\* now when there is no pattern
NoDeadline(patterns, at) ==
    LET candidates == {NextOccurrenceAfter(at, p[1], p[2]) : p \in patterns}
    IN  IF candidates # {} THEN SetMin(candidates) ELSE at

\* variant: a candidate of equal score replaces the best
ReplacesOnTies(scored, best) == best = <<>> \/ scored[2] <= best[2]

\* line 159: the candidate of this iteration replaces best_dt, best_score
Replaces(scored, best) ==
    \/ best = <<>>
    \/ scored[2] < best[2]
    \/ (scored[2] = best[2] /\ scored[1] < best[1])

\* lines 139-150: the patterns are built, which raises the ValueError of
\* a token that does not parse; without end_date or nb_days the call
\* returns, otherwise the loop is entered with best_dt = None
FindStart ==
    /\ pc = "find"
    /\ find.at = "start"
    /\ find' = IF ~PrefsParse(find.arg.prefs)
               THEN [find EXCEPT !.at = "raised"]
               ELSE IF find.arg.nb_days = NULL \/ find.arg.end_date = NULL
               THEN [find EXCEPT !.at = "returned",
                                 !.result = NoDeadline(BuildPatterns(find.arg.prefs),
                                                       find.arg.now)]
               ELSE [find EXCEPT !.at = "loop",
                                 !.todo = BuildPatterns(find.arg.prefs)]
    /\ UNCHANGED <<now, users, defs, inst, log, gtasks, pc, todoDefs, todoInst,
                   todoUsers, cycle0, quiet, rot, calls, lock>>

\* lines 152-161: one iteration of "for wd, t in patterns", a set, so on
\* any pattern not yet visited
FindLoop ==
    /\ pc = "find"
    /\ find.at = "loop"
    /\ \E p \in find.todo :
       \E scored \in {Scored(p, find.arg.end_date - find.arg.nb_days * DayLen,
                             find.arg.end_date)} :
           find' = [find EXCEPT !.todo = @ \ {p},
                                !.best = IF Replaces(scored, @) THEN scored ELSE @]
    /\ UNCHANGED <<now, users, defs, inst, log, gtasks, pc, todoDefs, todoInst,
                   todoUsers, cycle0, quiet, rot, calls, lock>>

\* lines 162-165: the end of the loop
FindReturn ==
    /\ pc = "find"
    /\ find.at = "loop"
    /\ find.todo = {}
    /\ find' = [find EXCEPT
                   !.at = "returned",
                   !.result = IF find.best # <<>> THEN find.best[1]
                              ELSE NoDeadline(BuildPatterns(find.arg.prefs),
                                              find.arg.now)]
    /\ UNCHANGED <<now, users, defs, inst, log, gtasks, pc, todoDefs, todoInst,
                   todoUsers, cycle0, quiet, rot, calls, lock>>

NextFind == FindStart \/ FindLoop \/ FindReturn

SpecFind == InitFind /\ [][NextFind]_vars

----------------------------------------------------------------------------
(* One visit of _assign_new_tasks on its own *)

\* the deadlines the instances of a table have
Deadlines == 1..2

\* the tables of 0 to MaxRows instances of the task, of any deadline_final
EnsureTables ==
    UNION {{[i \in DOMAIN t |-> [t[i] EXCEPT !.deadline_final = f[i]]] :
               f \in [DOMAIN t -> Deadlines]} : t \in InstanceTables}

InitEnsure ==
    /\ now = 2
    /\ users = [n \in UserNames |-> TRUE]
    /\ defs = [d \in DefNames |->
                  IF d = "t1" THEN UpsertTaskDefinition(
                                       [n \in DefNames |-> NoDefinition], FirstTaskRow)[d]
                  ELSE NoDefinition]
    /\ inst \in EnsureTables
    /\ log = <<>>
    /\ gtasks = {}
    /\ pc = "ensure"
    /\ todoDefs = GetActiveTaskDefinitions(defs)
    /\ todoInst = {}
    /\ todoUsers = {}
    /\ cycle0 = db
    /\ quiet = TRUE
    /\ rot = NoRotation
    /\ calls = NoCalls
    /\ lock = NoLock
    /\ find = NoFind

NextEnsure == \E d \in DefNames : AssignNewTasks(d)

SpecEnsure == InitEnsure /\ [][NextEnsure]_vars

----------------------------------------------------------------------------
(* _build_patterns on its own *)

\* the tokens of the lists: day-only, the two time-only, day and time, and
\* one that _parse_preference rejects
PatternTokens ==
    {<<"Lundi">>, <<"Vendredi">>, <<"00:00:00">>, <<"12:00:00">>,
     <<"Lundi", "12:00:00">>, <<"Vendredi", "00:00:00">>, <<"midi">>}

\* the lists of at most MaxPrefs + 1 tokens: a day-only token with two
\* time-only tokens is one of them
PatternLists == UNION {[1..n -> PatternTokens] : n \in 0..(MaxPrefs + 1)}

InitPatterns ==
    /\ now = 0
    /\ users = [n \in UserNames |-> TRUE]
    /\ defs = [d \in DefNames |-> NoDefinition]
    /\ inst = <<>>
    /\ log = <<>>
    /\ gtasks = {}
    /\ pc = "patterns"
    /\ todoDefs = {}
    /\ todoInst = {}
    /\ todoUsers = {}
    /\ cycle0 = <<>>
    /\ quiet = TRUE
    /\ rot = NoRotation
    /\ calls = NoCalls
    /\ lock = NoLock
    /\ \E l \in PatternLists :
           find = [at |-> "start",
                   arg |-> [prefs |-> l, end_date |-> NULL, nb_days |-> NULL, now |-> 0],
                   todo |-> {}, best |-> <<>>, result |-> {}]

\* _build_patterns(start_preferences): the set of patterns, or the
\* ValueError of a token that does not parse
ApplyBuildPatterns ==
    /\ pc = "patterns"
    /\ find.at = "start"
    /\ find' = IF ~PrefsParse(find.arg.prefs)
               THEN [find EXCEPT !.at = "raised"]
               ELSE [find EXCEPT !.at = "returned",
                                 !.result = BuildPatterns(find.arg.prefs)]
    /\ UNCHANGED <<now, users, defs, inst, log, gtasks, pc, todoDefs, todoInst,
                   todoUsers, cycle0, quiet, rot, calls, lock>>

NextPatterns == ApplyBuildPatterns

SpecPatterns == InitPatterns /\ [][NextPatterns]_vars

----------------------------------------------------------------------------
(* Properties *)

\* the non-terminated instances of a definition, now and when
\* process_all_tasks was entered
Live(d) == GetActiveTaskInstanceForDefinition(db, d)
Live0(d) == GetActiveTaskInstanceForDefinition(cycle0, d)

\* a definition without non-terminated instance, or with a reassignable one
Reassignable(d) ==
    Live(d) = {} \/ \E i \in Live(d) : inst[i].allow_reassignment

\* _assign_new_tasks has visited every definition and returns
EnsureReturns == pc = "ensure" /\ todoDefs = {}

\* _process_active_instances has visited every instance and returns
CycleEnds == pc = "deadline" /\ todoInst = {}

\* this step is the evaluation of instance i by _check_and_update_instance_state
Evaluates(i) ==
    /\ pc = "deadline"
    /\ i \in todoInst
    /\ todoInst' = todoInst \ {i}
    /\ users[inst[i].assigned_user_id]

\* C1: at most one non-terminated instance exists for each pair of a
\* definition and a user, in every state the operations lead to.
C1_OneLiveInstancePerPair ==
    \A i, j \in DOMAIN inst :
        (/\ inst[i].status # STATUS_TERMINATED
         /\ inst[j].status # STATUS_TERMINATED
         /\ inst[i].task_definition_id = inst[j].task_definition_id
         /\ inst[i].assigned_user_id = inst[j].assigned_user_id) => i = j

\* the rotation has come back to a pair it had served: one terminated and
\* one non-terminated instance of the same definition and user
C1_Witness ==
    \E i, j \in DOMAIN inst :
        /\ inst[i].status = STATUS_TERMINATED
        /\ inst[j].status # STATUS_TERMINATED
        /\ inst[i].task_definition_id = inst[j].task_definition_id
        /\ inst[i].assigned_user_id = inst[j].assigned_user_id

\* C2 as stated: in every state, each definition with a non-terminated
\* instance has a reassignable non-terminated instance.
C2_AlwaysReassignable == \A d \in DefNames : Reassignable(d)

\* C2: only an evaluation of the deadline pass takes the last
\* reassignable instance away from a definition; every other step keeps it,
\* and the visit of a definition by the ensure pass gives it back.
C2_LostOnlyByEvaluation ==
    [][\A d \in DefNames :
          /\ (pc # "deadline" /\ Reassignable(d)) => Reassignable(d)'
          /\ (pc = "ensure" /\ d \in todoDefs /\ d \notin todoDefs')
                 => Reassignable(d)']_vars

\* between the deadline pass and the next ensure pass, a definition whose
\* non-terminated instances are all closed to reassignment
C2_Witness ==
    /\ pc = "idle"
    /\ \E d \in DefNames : ~Reassignable(d)

\* C3 as stated: when the cycle ends, every active definition has a
\* non-terminated instance.
C3_EveryActiveDefinitionAssigned ==
    CycleEnds => \A d \in GetActiveTaskDefinitions(defs) : Live(d) # {}

\* the users of the roster are registered and the preferences parse
Assignable(definition) ==
    /\ \A k \in DOMAIN definition.actors : GetUserByName(users, definition.actors[k])
    /\ PrefsParse(definition.start_preferences)

\* C3: when the cycle ends, every active definition whose roster names
\* registered users only, whose preferences parse and whose pass-over period
\* is not negative has a non-terminated instance.
C3_AssignableDefinitionAssigned ==
    CycleEnds =>
        \A d \in GetActiveTaskDefinitions(defs) :
            (Assignable(defs[d]) /\ defs[d].pass_over_period >= 0) => Live(d) # {}

\* the cycle ends after it has passed an instance over and assigned the next
\* user of an assignable definition
C3_Witness ==
    /\ CycleEnds
    /\ \E d \in GetActiveTaskDefinitions(defs) :
           /\ Assignable(defs[d])
           /\ Len(log) > Len(cycle0.log)
           /\ \E i \in Live(d) : inst[i].assigned_at = now

\* C4: when the ensure pass returns, every active definition that has a
\* non-terminated instance has a reassignable one.
C4_ReassignableAfterEnsure ==
    EnsureReturns => \A d \in GetActiveTaskDefinitions(defs) : Reassignable(d)

\* the ensure pass returns having reopened an instance that an overdue
\* extension had closed: the only non-terminated instance of a
\* keep-and-change definition, extended and reassignable
C4_Witness ==
    /\ EnsureReturns
    /\ \E d \in GetActiveTaskDefinitions(defs) :
           /\ defs[d].overdue_behavior = BEHAVIOR_KEEP_AND_CHANGE
           /\ \E i \in Live(d) :
                  /\ Live(d) = {i}
                  /\ inst[i].allow_reassignment
                  /\ i \in DOMAIN cycle0.inst
                  /\ cycle0.inst[i].allow_reassignment = FALSE

\* C5: once an instance is terminated, no step changes its status, its
\* user, its assigned_at or its deadlines.
C5_TerminatedIsTerminal ==
    [][\A i \in DOMAIN inst :
          inst[i].status = STATUS_TERMINATED =>
              /\ inst'[i].status = inst[i].status
              /\ inst'[i].assigned_user_id = inst[i].assigned_user_id
              /\ inst'[i].assigned_at = inst[i].assigned_at
              /\ inst'[i].deadline_repeat = inst[i].deadline_repeat
              /\ inst'[i].deadline_final = inst[i].deadline_final]_vars

\* a terminated instance whose user has been assigned the task again since
C5_Witness ==
    \E i, j \in DOMAIN inst :
        /\ inst[i].status = STATUS_TERMINATED
        /\ inst[j].assigned_user_id = inst[i].assigned_user_id
        /\ inst[j].task_definition_id = inst[i].task_definition_id
        /\ inst[j].assigned_at > inst[i].assigned_at

\* this step evaluates the active instance i after its deadline_final
EvaluatesOverdue(i) ==
    /\ Evaluates(i)
    /\ inst[i].status = STATUS_ACTIVE
    /\ now > inst[i].deadline_final

\* C6 as stated: an overdue extension (keep, or keep and change) never
\* leaves deadline_final smaller than it was.
C6_ExtensionNeverShortens ==
    [][\A i \in DOMAIN inst :
          (/\ EvaluatesOverdue(i)
           /\ defs[inst[i].task_definition_id].overdue_behavior
                  \in {BEHAVIOR_KEEP, BEHAVIOR_KEEP_AND_CHANGE})
             => inst'[i].deadline_final >= inst[i].deadline_final]_vars

\* C7 as stated: when the deadline pass has just run, running it again at
\* the same instant leaves the instances and the completion history as they
\* are.
C7_SecondPassChangesNothing ==
    CycleEnds =>
        RunProcessActiveInstances(db, GetAllActiveTaskInstances(db, defs)) = db

\* C8 as stated: a cycle whose evaluations met no completed instance and no
\* elapsed deadline_final ends with the instances and the completion history
\* it began with.
C8_QuietCycleChangesNothing ==
    (CycleEnds /\ quiet) => db = cycle0

\* every active definition had a reassignable non-terminated instance when
\* the cycle began
Settled0 ==
    \A d \in GetActiveTaskDefinitions(defs) :
        \E i \in Live0(d) : cycle0.inst[i].allow_reassignment

\* C8: a cycle whose evaluations met no completed instance and no elapsed
\* deadline_final, begun when every active definition had a reassignable
\* non-terminated instance, ends with the instances and the completion
\* history it began with.
C8_QuietSettledCycleChangesNothing ==
    (CycleEnds /\ quiet /\ Settled0) => db = cycle0

\* such a cycle ends, having evaluated an instance
C8_Witness ==
    /\ CycleEnds
    /\ quiet
    /\ Settled0
    /\ \E i \in GetAllActiveTaskInstances(db, defs) : users[inst[i].assigned_user_id]

\* no name twice in the list
Distinct(actors) ==
    \A k, l \in DOMAIN actors : actors[k] = actors[l] => k = l

\* C9 as stated: from a user of a roster of N names the rotation is back
\* after N steps; from a user who is not of the roster, or from no user, it
\* goes to the first name.
C9_RoundRobinClosure ==
    /\ (/\ rot.start # None
        /\ rot.start[1] \in Range(rot.actors)
        /\ rot.applied = Len(rot.actors)) => rot.current = rot.start
    /\ (/\ rot.start = None \/ rot.start[1] \notin Range(rot.actors)
        /\ rot.applied = 1) => rot.current = Some(rot.actors[1])

\* C9: the same, for a roster that lists no name twice.
C9_RoundRobinClosureDistinct ==
    /\ (/\ rot.start # None
        /\ rot.start[1] \in Range(rot.actors)
        /\ Distinct(rot.actors)
        /\ rot.applied = Len(rot.actors)) => rot.current = rot.start
    /\ (/\ rot.start = None \/ rot.start[1] \notin Range(rot.actors)
        /\ rot.applied = 1) => rot.current = Some(rot.actors[1])

\* the rotation has gone round a roster of MaxRoster different names, from
\* its last name
C9_Witness ==
    /\ Len(rot.actors) = MaxRoster
    /\ Distinct(rot.actors)
    /\ rot.start = Some(rot.actors[MaxRoster])
    /\ rot.applied = MaxRoster
    /\ rot.current = rot.start

\* the entry of the completion history for a pass-over of instance i
PassedOverEntry(i) ==
    [task_instance_id |-> i, user_id |-> inst[i].assigned_user_id,
     completed_at |-> now, trigger_type |-> TRIGGER_PASSED_OVER]

\* after the step, the next user of the user of instance i has an active
\* instance of its definition
NextUserServed(i) ==
    \E j \in DOMAIN inst' :
        /\ inst'[j].status = STATUS_ACTIVE
        /\ inst'[j].task_definition_id = inst[i].task_definition_id
        /\ inst'[j].assigned_user_id =
               NextUserName(defs[inst[i].task_definition_id].actors,
                            Some(inst[i].assigned_user_id))

\* C10 as stated: the evaluation of an overdue active instance under
\* "Changer" terminates it, adds one passed-over entry to the history and,
\* if the instance was reassignable, leaves an active instance for the next
\* user.
C10_ChangePassesOver ==
    [][\A i \in DOMAIN inst :
          (/\ EvaluatesOverdue(i)
           /\ defs[inst[i].task_definition_id].overdue_behavior = BEHAVIOR_CHANGE)
             => /\ inst'[i].status = STATUS_TERMINATED
                /\ log' = Append(log, PassedOverEntry(i))
                /\ inst[i].allow_reassignment => NextUserServed(i)]_vars

\* the instance i can be passed on: it is reassignable, the next user is
\* registered and the preferences of the definition parse
CanAdvance(i) ==
    /\ inst[i].allow_reassignment
    /\ GetUserByName(users, NextUserName(defs[inst[i].task_definition_id].actors,
                                         Some(inst[i].assigned_user_id)))
    /\ PrefsParse(defs[inst[i].task_definition_id].start_preferences)

\* C10: the evaluation of an overdue active instance under "Changer"
\* terminates it and adds one passed-over entry to the history; if the
\* instance can be passed on, an active instance is left for the next user,
\* otherwise no other instance is written.
C10_ChangePassesOverIfPossible ==
    [][\A i \in DOMAIN inst :
          (/\ EvaluatesOverdue(i)
           /\ defs[inst[i].task_definition_id].overdue_behavior = BEHAVIOR_CHANGE)
             => /\ inst'[i].status = STATUS_TERMINATED
                /\ log' = Append(log, PassedOverEntry(i))
                /\ IF CanAdvance(i)
                   THEN NextUserServed(i)
                   ELSE inst' = [inst EXCEPT ![i].status = STATUS_TERMINATED]]_vars

\* an instance has just been passed over under "Changer" and the next user
\* has been given the task
C10_Witness ==
    /\ pc = "deadline"
    /\ log # <<>>
    /\ log[Len(log)].trigger_type = TRIGGER_PASSED_OVER
    /\ log[Len(log)].completed_at = now
    /\ inst[log[Len(log)].task_instance_id].status = STATUS_TERMINATED
    /\ defs[inst[log[Len(log)].task_instance_id].task_definition_id].overdue_behavior
           = BEHAVIOR_CHANGE
    /\ \E j \in DOMAIN inst :
           /\ inst[j].status = STATUS_ACTIVE
           /\ inst[j].assigned_at = now
           /\ inst[j].assigned_user_id # inst[log[Len(log)].task_instance_id].assigned_user_id

\* C11: the evaluation of an overdue active instance under "Garder" writes
\* now + pass_over_period into its deadline_final and nothing else: its
\* status, user and allow_reassignment, the other instances and the
\* completion history stay as they are, and no instance is created.
C11_KeepExtendsOnly ==
    [][\A i \in DOMAIN inst :
          (/\ EvaluatesOverdue(i)
           /\ defs[inst[i].task_definition_id].overdue_behavior = BEHAVIOR_KEEP)
             => /\ inst' = [inst EXCEPT ![i].deadline_final =
                               now + defs[inst[i].task_definition_id].pass_over_period]
                /\ inst'[i].status = STATUS_ACTIVE
                /\ log' = log]_vars

\* the deadline pass has extended an overdue instance of a "Garder"
\* definition in this cycle
C11_Witness ==
    /\ pc = "deadline"
    /\ \E i \in DOMAIN inst :
           /\ i \in DOMAIN cycle0.inst
           /\ i \notin todoInst
           /\ defs[inst[i].task_definition_id].overdue_behavior = BEHAVIOR_KEEP
           /\ cycle0.inst[i].status = STATUS_ACTIVE
           /\ cycle0.inst[i].deadline_final < now
           /\ inst[i].deadline_final = now + defs[inst[i].task_definition_id].pass_over_period
           /\ inst[i].status = STATUS_ACTIVE

\* the next user of the user of instance i in the roster of its definition
NextUserOf(i) ==
    NextUserName(defs[inst[i].task_definition_id].actors, Some(inst[i].assigned_user_id))

\* after the step the instance i is active, extended to now +
\* pass_over_period and closed to reassignment
ExtendedAndClosed(i) ==
    /\ inst'[i].status = STATUS_ACTIVE
    /\ inst'[i].deadline_final = now + defs[inst[i].task_definition_id].pass_over_period
    /\ inst'[i].allow_reassignment = FALSE

EvaluatesCompletedOverdue(i) ==
    /\ Evaluates(i)
    /\ inst[i].status = STATUS_COMPLETED
    /\ now > inst[i].deadline_final

\* the tables once instance i is terminated and its pass-over is entered in
\* the completion history
TerminatedAndLogged(i) ==
    [inst |-> [inst EXCEPT ![i].status = STATUS_TERMINATED],
     log |-> Append(log, PassedOverEntry(i))]

EvaluatesReactivation(i) ==
    /\ Evaluates(i)
    /\ inst[i].status = STATUS_COMPLETED
    /\ ~(now > inst[i].deadline_final)
    /\ now > inst[i].completed_at + defs[inst[i].task_definition_id].reproduction_period

\* C14 as stated: the evaluation of a completed instance that has reached
\* its reactivation time and not its deadline_final makes it active again
\* for the same user, with no completed_at, assigned_at = now,
\* deadline_repeat = now + reproduction_period and the same deadline_final.
C14_CompletedReactivated ==
    [][\A i \in DOMAIN inst :
          EvaluatesReactivation(i)
             => /\ inst'[i].status = STATUS_ACTIVE
                /\ inst'[i].assigned_user_id = inst[i].assigned_user_id
                /\ inst'[i].completed_at = NULL
                /\ inst'[i].assigned_at = now
                /\ inst'[i].deadline_repeat =
                       now + defs[inst[i].task_definition_id].reproduction_period
                /\ inst'[i].deadline_final = inst[i].deadline_final]_vars

\* this step is a visit of the ensure pass to definition d that returns
Visits(d) ==
    /\ pc = "ensure"
    /\ d \in todoDefs
    /\ pc' = "ensure"
    /\ todoDefs' = todoDefs \ {d}

\* this step is a visit of the ensure pass that leaves by an exception
VisitRaises == pc = "ensure" /\ pc' = "idle"

\* the step appends one active instance of definition d for user u, assigned
\* now, and leaves the other instances as they are
NewInstanceFor(d, u) ==
    /\ Len(inst') = Len(inst) + 1
    /\ \A i \in DOMAIN inst : inst'[i] = inst[i]
    /\ inst'[Len(inst')].status = STATUS_ACTIVE
    /\ inst'[Len(inst')].task_definition_id = d
    /\ inst'[Len(inst')].assigned_user_id = u
    /\ inst'[Len(inst')].assigned_at = now

\* C15 as stated: the visit of the ensure pass to a definition without
\* non-terminated instance creates one active instance for the first name
\* of the roster; the visit to a definition that has one creates nothing.
C15_FirstActorAssigned ==
    [][/\ \A d \in DefNames :
             Visits(d) => IF Live(d) = {}
                          THEN NewInstanceFor(d, defs[d].actors[1])
                          ELSE Len(inst') = Len(inst)
       /\ ~VisitRaises]_vars

\* C15: a visit of the ensure pass to a definition without non-terminated
\* instance creates one active instance for the first name of the roster if
\* that user is registered, and writes nothing if not; a visit to a
\* definition that has a non-terminated instance creates nothing and leaves
\* the status and the user of every instance.  A visit leaves by an
\* exception only at a definition without non-terminated instance whose
\* preferences do not parse, and has written nothing.
C15_FirstActorAssignedIfPossible ==
    [][/\ \A d \in DefNames :
             Visits(d) =>
                 IF Live(d) = {}
                 THEN IF GetUserByName(users, defs[d].actors[1])
                      THEN /\ NewInstanceFor(d, defs[d].actors[1])
                           /\ PrefsParse(defs[d].start_preferences)
                      ELSE inst' = inst
                 ELSE /\ Len(inst') = Len(inst)
                      /\ \A i \in DOMAIN inst :
                             /\ inst'[i].status = inst[i].status
                             /\ inst'[i].assigned_user_id = inst[i].assigned_user_id
       /\ VisitRaises =>
              /\ inst' = inst
              /\ \E d \in todoDefs :
                     /\ Live(d) = {}
                     /\ GetUserByName(users, defs[d].actors[1])
                     /\ ~PrefsParse(defs[d].start_preferences)]_vars

\* the ensure pass has visited a definition whose instances were all
\* terminated and has created an instance for the first name of a roster of
\* two
C15_Witness ==
    /\ pc = "ensure"
    /\ \E d \in GetActiveTaskDefinitions(defs) \ todoDefs :
           /\ Len(defs[d].actors) = 2
           /\ Live0(d) = {}
           /\ cycle0.inst # <<>>
           /\ Len(inst) = Len(cycle0.inst) + 1
           /\ inst[Len(inst)].status = STATUS_ACTIVE
           /\ inst[Len(inst)].task_definition_id = d
           /\ inst[Len(inst)].assigned_user_id = defs[d].actors[1]

\* the non-terminated instances of the task held by user u
HeldBy(u) ==
    {i \in DOMAIN inst : /\ inst[i].task_definition_id = "t1"
                          /\ inst[i].status # STATUS_TERMINATED
                          /\ inst[i].assigned_user_id = u}

\* C16: an assignment that returns, to a registered user who holds a
\* non-terminated instance of the definition, creates nothing and overwrites
\* that instance with assigned_at = now, deadline_repeat = now +
\* reproduction_period, deadline_final = now + pass_over_period, status
\* active and allow_reassignment False, leaving the other instances; to a
\* registered user who holds none, it creates one active instance and leaves
\* the others.  An assignment that raises writes nothing.
C16_ReuseOrCreate ==
    [][(pc = "assign" /\ pc' # "assign") =>
          \E u \in {NextUserName(defs["t1"].actors, rot.start)} :
              IF pc' = "raised" \/ ~GetUserByName(users, u)
              THEN inst' = inst
              ELSE IF HeldBy(u) # {}
              THEN /\ Len(inst') = Len(inst)
                   /\ \E i \in HeldBy(u) :
                          /\ inst'[i].assigned_user_id = u
                          /\ inst'[i].assigned_at = now
                          /\ inst'[i].deadline_repeat = now + defs["t1"].reproduction_period
                          /\ inst'[i].deadline_final = now + defs["t1"].pass_over_period
                          /\ inst'[i].status = STATUS_ACTIVE
                          /\ inst'[i].allow_reassignment = FALSE
                          /\ \A j \in DOMAIN inst \ {i} : inst'[j] = inst[j]
              ELSE /\ NewInstanceFor("t1", u)
                   /\ inst'[Len(inst')].deadline_repeat = now + defs["t1"].reproduction_period
                   /\ inst'[Len(inst')].deadline_final = now + defs["t1"].pass_over_period]_vars

\* the assignment has returned having reused the completed, reassignable
\* instance of the next user
C16_Witness ==
    /\ pc = "returned"
    /\ rot.start = Some("A")
    /\ rot.actors = <<"A", "B">>
    /\ Len(inst) = MaxRows
    /\ \E i \in DOMAIN inst :
           /\ inst[i].assigned_user_id = "B"
           /\ inst[i].status = STATUS_ACTIVE
           /\ inst[i].completed_at = 0
           /\ inst[i].assigned_at = now
           /\ inst[i].allow_reassignment = FALSE

\* the evaluation of instance i calls _assign_to_next_user: the instance is
\* overdue and reassignable, and is completed or under "Changer" or "Garder
\* et changer"
Advances(i) ==
    /\ Evaluates(i)
    /\ now > inst[i].deadline_final
    /\ inst[i].allow_reassignment
    /\ \/ inst[i].status = STATUS_COMPLETED
       \/ /\ inst[i].status = STATUS_ACTIVE
          /\ defs[inst[i].task_definition_id].overdue_behavior
                 \in {BEHAVIOR_CHANGE, BEHAVIOR_KEEP_AND_CHANGE}

\* C17: an advance to a user who is not registered is skipped without an
\* exception.  In the ensure pass the visit writes nothing and the pass goes
\* on with the other definitions; a visit leaves by an exception only at a
\* definition whose first user is registered.  In the deadline pass the
\* evaluation writes what it writes on its own instance (the termination
\* and its entry, or the extension), no other instance is created or
\* modified, and the pass goes on with the other instances.
C17_UnknownUserSkipped ==
    [][/\ \A d \in DefNames :
             (/\ Visits(d)
              /\ Live(d) = {}
              /\ ~GetUserByName(users, defs[d].actors[1]))
                => /\ inst' = inst
                   /\ log' = log
       /\ VisitRaises =>
              \E d \in todoDefs : GetUserByName(users, defs[d].actors[1])
       /\ \A i \in DOMAIN inst :
             (Advances(i) /\ ~GetUserByName(users, NextUserOf(i)))
                => /\ pc' = "deadline"
                   /\ IF inst[i].status = STATUS_ACTIVE
                         /\ defs[inst[i].task_definition_id].overdue_behavior
                                = BEHAVIOR_KEEP_AND_CHANGE
                      THEN /\ inst' = [inst EXCEPT
                                          ![i].deadline_final =
                                              now + defs[inst[i].task_definition_id].pass_over_period,
                                          ![i].allow_reassignment = FALSE]
                           /\ log' = log
                      ELSE /\ inst' = TerminatedAndLogged(i).inst
                           /\ log' = TerminatedAndLogged(i).log]_vars

\* the deadline pass has evaluated an overdue, reassignable instance whose
\* next user is not registered: the instance is extended and closed and no
\* instance has been created
C17_Witness ==
    /\ pc = "deadline"
    /\ \E i \in DOMAIN inst :
           /\ i \in DOMAIN cycle0.inst
           /\ i \notin todoInst
           /\ cycle0.inst[i].status = STATUS_ACTIVE
           /\ cycle0.inst[i].deadline_final < now
           /\ cycle0.inst[i].allow_reassignment
           /\ ~GetUserByName(users, NextUserOf(i))
           /\ inst[i].deadline_final = now + defs[inst[i].task_definition_id].pass_over_period
           /\ inst[i].allow_reassignment = FALSE
           /\ Len(inst) = Len(cycle0.inst)

\* C18 as stated: an exception raised while one definition or one instance
\* is handled does not end the cycle.  A definition leaves the list of the
\* ensure pass only by its own visit and the pass is left only for the
\* deadline pass, once every definition is visited; an instance leaves the
\* list of the deadline pass only by its own turn and the pass is left only
\* once every instance has had its turn.
C18_FailureIsolated ==
    [][/\ pc = "ensure" =>
              /\ pc' \in {"ensure", "deadline"}
              /\ pc' = "deadline" => todoDefs = {}
              /\ \A d \in todoDefs : d \in todoDefs' \/ todoDefs' = todoDefs \ {d}
       /\ pc = "deadline" =>
              /\ pc' \in {"deadline", "gtasks"}
              /\ pc' = "gtasks" => todoInst = {}
              /\ \A i \in todoInst : i \in todoInst' \/ todoInst' = todoInst \ {i}]_vars

\* the instance i was created by the ensure pass of this cycle and waits
\* for its turn in the deadline pass
CreatedByEnsure(i) ==
    /\ pc = "deadline"
    /\ i \in todoInst
    /\ i \notin DOMAIN cycle0.inst

\* C19 as stated: the ensure pass is left for the deadline pass once every
\* definition is visited, instances are evaluated in the deadline pass
\* only, and an instance created by the ensure pass is left as it is by
\* every step of the deadline pass of the same cycle; its own evaluation
\* writes nothing at all.
C19_NewInstanceUntouched ==
    [][/\ (pc = "ensure" /\ pc' = "deadline") => todoDefs = {}
       /\ pc = "deadline" => todoDefs = {}
       /\ \A i \in DOMAIN inst :
              CreatedByEnsure(i) =>
                  /\ inst'[i] = inst[i]
                  /\ i \notin todoInst' => (inst' = inst /\ log' = log)]_vars

\* two non-terminated instances of one definition for one user
TwoLiveForOnePair ==
    \E i, j \in DOMAIN inst :
        /\ i # j
        /\ inst[i].status # STATUS_TERMINATED
        /\ inst[j].status # STATUS_TERMINATED
        /\ inst[i].task_definition_id = inst[j].task_definition_id
        /\ inst[i].assigned_user_id = inst[j].assigned_user_id

\* C20: when the repository serialises the lookup and the write of the
\* calls for one pair of a definition and a user, two overlapping calls
\* never leave two non-terminated instances for one pair.
C20_SerializedKeepsOnePerPair == lock.serialized => ~TwoLiveForOnePair

\* C20, the other half: when the repository does not serialise, two
\* overlapping calls that both looked up before either wrote have left two
\* non-terminated instances for one pair.
C20_Witness ==
    /\ ~lock.serialized
    /\ \A c \in Calls : calls[c].at = "done" /\ calls[c].found = 0
    /\ TwoLiveForOnePair

\* the target of a call with end_date and nb_days
FindTarget == find.arg.end_date - find.arg.nb_days * DayLen

\* a call with end_date and nb_days has returned
FindReturnedDeadline ==
    /\ pc = "find"
    /\ find.at = "returned"
    /\ find.arg.end_date # NULL
    /\ find.arg.nb_days # NULL

\* C21: the value find_start_datetime returns, when it is given end_date
\* and nb_days >= 0, is never later than end_date; nor is best_dt at any
\* point of its loop.
C21_NeverAfterEndDate ==
    pc = "find" /\ find.arg.end_date # NULL /\ find.arg.nb_days # NULL =>
        /\ find.best # <<>> => find.best[1] <= find.arg.end_date
        /\ find.at = "returned" => find.result <= find.arg.end_date

\* C21 is met where it matters: the call has returned and the nearest
\* occurrence of every pattern lay after end_date
C21_Witness ==
    /\ FindReturnedDeadline
    /\ \A p \in BuildPatterns(find.arg.prefs) :
           NearestOccurrenceTo(FindTarget, p[1], p[2])[1] > find.arg.end_date

\* a call without end_date or without nb_days has returned
FindReturnedNoDeadline ==
    /\ pc = "find"
    /\ find.at = "returned"
    /\ (find.arg.end_date = NULL \/ find.arg.nb_days = NULL)

\* the instant t is an occurrence of the pattern <<weekday, time>>
OccurrenceOf(t, pattern) == Weekday(t) = pattern[1] /\ t % DayLen = pattern[2]

\* C22: without end_date or without nb_days, find_start_datetime returns
\* the first instant after now that is an occurrence of one of the
\* patterns of the preference list: it is later than now, it is an
\* occurrence of a pattern, and no instant between now and it is one.  For
\* a list of one day-only token D and one time-only token t, in either
\* order, it is the first occurrence of weekday D at time t after now.
C22_EarliestNextOccurrence ==
    FindReturnedNoDeadline =>
        /\ find.result > find.arg.now
        /\ \E p \in BuildPatterns(find.arg.prefs) : OccurrenceOf(find.result, p)
        /\ \A t \in (find.arg.now + 1)..(find.result - 1) :
               \A p \in BuildPatterns(find.arg.prefs) : ~OccurrenceOf(t, p)
        /\ \A day \in DOMAIN DAY_MAP : \A k \in DOMAIN ClockTimes :
               find.arg.prefs \in {<< <<day>>, <<ClockTimes[k]>> >>,
                                   << <<ClockTimes[k]>>, <<day>> >>} =>
                   /\ OccurrenceOf(find.result, <<DAY_MAP[day], k - 1>>)
                   /\ find.result - find.arg.now <= Week

\* C22 is met where it matters: on a Wednesday at 00:00:00 the list
\* "Vendredi", "12:00:00" gives the Friday of that week at 12:00:00
C22_Witness ==
    /\ FindReturnedNoDeadline
    /\ find.arg.prefs = << <<"Vendredi">>, <<"12:00:00">> >>
    /\ find.arg.now = Combine(2, 0)
    /\ find.result = Combine(4, 1)

\* the occurrences the loop of a call weighs, one for each pattern
FindOccurrences ==
    {Scored(p, FindTarget, find.arg.end_date)[1] : p \in BuildPatterns(find.arg.prefs)}

\* the occurrence a is at least as good as b: nearer to the target, or as
\* near and not later
NearerOrEarlier(a, b) ==
    \/ Abs(a - FindTarget) < Abs(b - FindTarget)
    \/ (Abs(a - FindTarget) = Abs(b - FindTarget) /\ a <= b)

\* C23: with end_date and nb_days, find_start_datetime returns one of the
\* occurrences it weighs (for each pattern the nearest to the target,
\* taken back to end_date at the latest), nearest to the target and the
\* earliest of the nearest; whatever the order in which the loop visits
\* the patterns.  That value is the one nearest to the target of all the
\* occurrences of the patterns up to end_date, and the value the engine's
\* one-step reading of the function gives.
C23_NearestToTarget ==
    FindReturnedDeadline =>
        /\ find.result \in FindOccurrences
        /\ \A o \in FindOccurrences : NearerOrEarlier(find.result, o)
        /\ \A t \in (FindTarget - Week)..find.arg.end_date :
               (\E p \in BuildPatterns(find.arg.prefs) : OccurrenceOf(t, p))
                   => NearerOrEarlier(find.result, t)
        /\ find.result = FindStartDatetime(find.arg.prefs, find.arg.end_date,
                                           find.arg.nb_days, find.arg.now)

\* C23 is met where it matters: two occurrences weighed are equally near
\* to the target, none is nearer, and the earlier one is returned
C23_Witness ==
    /\ FindReturnedDeadline
    /\ \E a \in FindOccurrences : \E b \in FindOccurrences :
           /\ a < b
           /\ Abs(a - FindTarget) = Abs(b - FindTarget)
           /\ find.result = a

\* C24: for an empty preference list find_start_datetime returns now.
\* (_build_patterns gives an empty list the seven patterns of 00:00:00,
\* lines 98-100, so that the value returned is an instant at 00:00:00.)
C24_EmptyListReturnsNow ==
    pc = "find" /\ find.at = "returned" /\ find.arg.prefs = <<>> =>
        find.result = find.arg.now

\* C30: _next_occurrence_after(moment, weekday, time) is the first instant
\* after moment that falls on that weekday at that time: it is later than
\* moment, never moment itself, at most 7 days after it, an occurrence of
\* <<weekday, time>>, and no instant between moment and it is one.  Here
\* for the moment now of a call of find_start_datetime that applied it,
\* and every weekday and time; the value returned for a list of one
\* pattern is that instant.
C30_NextOccurrenceStrictlyAfter ==
    FindReturnedNoDeadline =>
        /\ \A weekday \in 0..6 : \A at_time \in 0..(DayLen - 1) :
           \A next \in {NextOccurrenceAfter(find.arg.now, weekday, at_time)} :
               /\ next > find.arg.now
               /\ next - find.arg.now <= Week
               /\ OccurrenceOf(next, <<weekday, at_time>>)
               /\ \A t \in (find.arg.now + 1)..(next - 1) :
                      ~OccurrenceOf(t, <<weekday, at_time>>)
        /\ \A p \in BuildPatterns(find.arg.prefs) :
               BuildPatterns(find.arg.prefs) = {p} =>
                   find.result = NextOccurrenceAfter(find.arg.now, p[1], p[2])

\* C30 is met where it matters: now is itself an occurrence of the only
\* pattern of the list and the call returns the instant 7 days later
C30_Witness ==
    /\ FindReturnedNoDeadline
    /\ BuildPatterns(find.arg.prefs) = {<<Weekday(find.arg.now), find.arg.now % DayLen>>}
    /\ find.result = find.arg.now + Week

\* the rows an assignment has written: created or overwritten
Written == {i \in DOMAIN inst' : i \notin DOMAIN inst \/ inst'[i] # inst[i]}

\* C25: an assignment to a registered user whose start date cannot be
\* computed (a preference that does not parse) raises, and writes nothing:
\* no row is created, none is changed, nothing is logged.  Every row an
\* assignment writes carries a start date computed from preferences that
\* parse, an occurrence of one of their patterns.
C25_NoAssignmentWithoutStartDate ==
    [][(pc = "assign" /\ pc' # "assign") =>
          /\ (/\ GetUserByName(users, NextUserName(defs["t1"].actors, rot.start))
              /\ ~PrefsParse(defs["t1"].start_preferences))
                 => (pc' = "raised" /\ inst' = inst /\ log' = log)
          /\ \A i \in Written :
                 /\ pc' = "returned"
                 /\ PrefsParse(defs["t1"].start_preferences)
                 /\ \E p \in BuildPatterns(defs["t1"].start_preferences) :
                        OccurrenceOf(inst'[i].start_date, p)]_vars

\* C25 is met where it matters: the assignment has raised while the next
\* user, registered, held a non-terminated instance that a completed
\* assignment would have overwritten
C25_Witness ==
    /\ pc = "raised"
    /\ rot.applied = 1
    /\ ~PrefsParse(defs["t1"].start_preferences)
    /\ GetUserByName(users, NextUserName(defs["t1"].actors, rot.start))
    /\ HeldBy(NextUserName(defs["t1"].actors, rot.start)) # {}

\* the entries of a log for an instance and a trigger
EntriesOf(entries, i, trigger) ==
    {k \in DOMAIN entries : /\ entries[k].task_instance_id = i
                            /\ entries[k].trigger_type = trigger}

\* the entries a step appends for an instance and a trigger
Appended(i, trigger) == Cardinality(EntriesOf(log', i, trigger) \ DOMAIN log)

\* the instance becomes terminated / goes from active to completed
BecomesTerminated(i) ==
    /\ inst'[i].status = STATUS_TERMINATED
    /\ i \in DOMAIN inst => inst[i].status # STATUS_TERMINATED

BecomesCompleted(i) ==
    /\ i \in DOMAIN inst
    /\ inst[i].status = STATUS_ACTIVE
    /\ inst'[i].status = STATUS_COMPLETED

\* C26, in every state: an instance has one passed_over entry when it is
\* terminated and none otherwise, and every entry is of one of the two
\* triggers.
C26_OnePassedOverWhenTerminated ==
    /\ \A i \in DOMAIN inst :
           Cardinality(EntriesOf(log, i, TRIGGER_PASSED_OVER)) =
               IF inst[i].status = STATUS_TERMINATED THEN 1 ELSE 0
    /\ \A k \in DOMAIN log :
           /\ log[k].task_instance_id \in DOMAIN inst
           /\ log[k].trigger_type \in {TRIGGER_PASSED_OVER, TRIGGER_API}

\* C26: the log only grows, its entries are never changed; a step appends
\* one passed_over entry for each instance it terminates, one api_completed
\* entry for each active instance it marks completed, and no other entry.
C26_OneEntryPerEvent ==
    /\ []C26_OnePassedOverWhenTerminated
    /\ [][/\ Len(log') >= Len(log)
          /\ \A k \in DOMAIN log : log'[k] = log[k]
          /\ \A i \in DOMAIN inst' :
                 /\ Appended(i, TRIGGER_PASSED_OVER) =
                        IF BecomesTerminated(i) THEN 1 ELSE 0
                 /\ Appended(i, TRIGGER_API) =
                        IF BecomesCompleted(i) THEN 1 ELSE 0
          /\ \A k \in DOMAIN log' \ DOMAIN log :
                 /\ log'[k].task_instance_id \in DOMAIN inst'
                 /\ log'[k].trigger_type \in {TRIGGER_PASSED_OVER, TRIGGER_API}]_vars

\* C26 is met where it matters: the log holds the entry of a completion
\* reported by the board and the entry of a termination
C26_Witness ==
    /\ \E k \in DOMAIN log : log[k].trigger_type = TRIGGER_API
    /\ \E k \in DOMAIN log :
           /\ log[k].trigger_type = TRIGGER_PASSED_OVER
           /\ inst[log[k].task_instance_id].status = STATUS_TERMINATED

\* instance i is active, or completed and not yet due for reactivation,
\* and its deadline_final has not elapsed
NothingDue(i) ==
    /\ now <= inst[i].deadline_final
    /\ \/ inst[i].status = STATUS_ACTIVE
       \/ /\ inst[i].status = STATUS_COMPLETED
          /\ now <= inst[i].completed_at
                        + defs[inst[i].task_definition_id].reproduction_period

\* C27: the evaluation of an active instance whose deadline_final has not
\* elapsed, or of a completed instance whose deadline_final has not elapsed
\* and whose reactivation time has not passed, changes no instance, creates
\* none and writes no log entry.
C27_NothingDueChangesNothing ==
    [][\A i \in DOMAIN inst :
          (Evaluates(i) /\ NothingDue(i)) => (inst' = inst /\ log' = log)]_vars

\* C27 is met where it matters: the deadline pass has evaluated, at the
\* instant of its deadline_final, a completed instance whose reactivation
\* time has not passed, and an active one
C27_Witness ==
    /\ pc = "deadline"
    /\ \E i \in GetAllActiveTaskInstances(db, defs) \ todoInst :
           /\ users[inst[i].assigned_user_id]
           /\ inst[i].status = STATUS_COMPLETED
           /\ NothingDue(i)
    /\ \E i \in GetAllActiveTaskInstances(db, defs) \ todoInst :
           /\ users[inst[i].assigned_user_id]
           /\ inst[i].status = STATUS_ACTIVE
           /\ now = inst[i].deadline_final

\* C28: when the ensure pass visits a definition that has non-terminated
\* instances, none of them reassignable, it sets allow_reassignment on
\* one of them, one whose deadline_final none of the others exceeds, and
\* changes nothing else: no other field, no other instance, no log entry.
C28_LatestInstanceReopened ==
    [][\A d \in DefNames :
          (/\ Visits(d)
           /\ Live(d) # {}
           /\ \A i \in Live(d) : ~inst[i].allow_reassignment)
             => /\ \E i \in Live(d) :
                       /\ \A j \in Live(d) :
                              inst[j].deadline_final <= inst[i].deadline_final
                       /\ inst' = [inst EXCEPT ![i].allow_reassignment = TRUE]
                /\ log' = log]_vars

\* C28 is met where it matters: the ensure pass has visited a definition
\* with two non-terminated instances of different deadline_final, none
\* reassignable, and the later one alone is now reassignable
C28_Witness ==
    /\ pc = "ensure"
    /\ \E d \in GetActiveTaskDefinitions(defs) \ todoDefs :
       \E i \in Live0(d) : \E j \in Live0(d) :
           /\ cycle0.inst[i].deadline_final < cycle0.inst[j].deadline_final
           /\ \A k \in Live0(d) : ~cycle0.inst[k].allow_reassignment
           /\ inst = [cycle0.inst EXCEPT ![j].allow_reassignment = TRUE]

\* the periods of the definition of an instance
PeriodsOf(row) == defs[row.task_definition_id]

\* C29, in every state: deadline_repeat = assigned_at + reproduction_period
\* and deadline_final >= assigned_at + pass_over_period, for every
\* instance.
C29_DeadlinesFromAssignment ==
    \A i \in DOMAIN inst :
        /\ inst[i].deadline_repeat =
               inst[i].assigned_at + PeriodsOf(inst[i]).reproduction_period
        /\ inst[i].deadline_final >=
               inst[i].assigned_at + PeriodsOf(inst[i]).pass_over_period

C31_NearestOccurrence ==
    FindReturnedDeadline =>
        \A weekday \in 0..6 : \A at_time \in 0..(DayLen - 1) :
        \A near \in {NearestOccurrenceTo(FindTarget, weekday, at_time)} :
            /\ OccurrenceOf(near[1], <<weekday, at_time>>)
            /\ near[2] = Abs(near[1] - FindTarget)
            /\ 2 * near[2] <= Week
            /\ \A t \in (FindTarget - Week)..(FindTarget + Week) :
                   OccurrenceOf(t, <<weekday, at_time>>) => NearerOrEarlier(near[1], t)
            /\ OccurrenceOf(FindTarget, <<weekday, at_time>>) => near[1] = FindTarget

\* C31 is met where it matters: the only pattern of the list has an
\* occurrence half a week before the target and one half a week after it,
\* and the call returns the earlier one
C31_Witness ==
    /\ FindReturnedDeadline
    /\ \E p \in BuildPatterns(find.arg.prefs) :
           /\ BuildPatterns(find.arg.prefs) = {p}
           /\ OccurrenceOf(2 * FindTarget - find.result, p)
           /\ find.result < FindTarget
           /\ 2 * (FindTarget - find.result) = Week

\* the tokens of the list of a call of _build_patterns that returned, by
\* kind: a day and a time, a day, a time
PatternsReturned == pc = "patterns" /\ find.at = "returned"

DayTimeTokens == {find.arg.prefs[k] : k \in {j \in DOMAIN find.arg.prefs :
                                                Len(find.arg.prefs[j]) = 2}}

DayTokens == {find.arg.prefs[k] : k \in {j \in DOMAIN find.arg.prefs :
                                            /\ Len(find.arg.prefs[j]) = 1
                                            /\ find.arg.prefs[j][1] \in DOMAIN DAY_MAP}}

TimeTokens == {find.arg.prefs[k] : k \in {j \in DOMAIN find.arg.prefs :
                                             /\ Len(find.arg.prefs[j]) = 1
                                             /\ find.arg.prefs[j][1] \in Range(ClockTimes)}}

\* C32: for a list with a day-only or a day-and-time token, the patterns
\* _build_patterns returns are the pairs of the day-and-time tokens, and
\* for each day of a day-only token that no day-and-time token names the
\* pair of that day and the smallest time of the time-only tokens, or
\* 00:00:00 if there is none; nothing else.  The weekdays of the patterns
\* are the days the tokens name.
C32_DayRestrictedPatterns ==
    (PatternsReturned /\ DayTimeTokens \cup DayTokens # {}) =>
        /\ find.result =
              {<<DAY_MAP[tok[1]], Strptime(tok[2])>> : tok \in DayTimeTokens}
              \cup {<<DAY_MAP[tok[1]],
                      IF TimeTokens = {} THEN 0
                      ELSE SetMin({Strptime(t[1]) : t \in TimeTokens})>> :
                       tok \in {x \in DayTokens :
                                   \A y \in DayTimeTokens : y[1] # x[1]}}
        /\ {p[1] : p \in find.result} =
              {DAY_MAP[tok[1]] : tok \in DayTimeTokens \cup DayTokens}

\* C32 is met where it matters: a day-only token with the two time-only
\* tokens, the later time first, gives that day at the earlier time
C32_Witness ==
    /\ PatternsReturned
    /\ find.arg.prefs = << <<"12:00:00">>, <<"Vendredi">>, <<"00:00:00">> >>
    /\ find.result = {<<4, 0>>}

\* this step is sync_gtasks_state for user u
Syncs(u) ==
    /\ pc = "gtasks"
    /\ u \in todoUsers
    /\ todoUsers' = todoUsers \ {u}

\* C33, in every state: the board holds at most one item for an instance.
C33_OneItemPerInstance ==
    \A i \in DOMAIN inst : Cardinality(GtaskOf(gtasks, i)) <= 1

\* C33: an item appears on the board for an instance only in the
\* synchronisation of the user of that instance, the instance being
\* active, without item on the board and with a start date earlier than
\* now; there is never a second item for an instance.  When the
\* synchronisation of a user ends, no completed or terminated instance of
\* that user has an item on the board or a board id.
C33_BoardFollowsInstances ==
    /\ []C33_OneItemPerInstance
    /\ [][/\ \A g \in gtasks' :
                GtaskOf(gtasks, g.sync_id) = {} =>
                    /\ g.sync_id \in DOMAIN inst
                    /\ Syncs(inst[g.sync_id].assigned_user_id)
                    /\ inst[g.sync_id].status = STATUS_ACTIVE
                    /\ inst[g.sync_id].start_date < now
          /\ \A u \in UserNames :
                Syncs(u) =>
                    \A i \in DOMAIN inst' :
                        (/\ inst'[i].assigned_user_id = u
                         /\ inst'[i].status # STATUS_ACTIVE)
                            => /\ GtaskOf(gtasks', i) = {}
                               /\ inst'[i].gtasks_task_id = None]_vars

\* C33 is met where it matters: the synchronisation of its user has
\* passed over an active instance whose start date is not earlier than
\* now, which has no item on the board
C33_Witness ==
    /\ pc = "gtasks"
    /\ \E i \in DOMAIN inst :
           /\ users[inst[i].assigned_user_id]
           /\ inst[i].assigned_user_id \notin todoUsers
           /\ inst[i].status = STATUS_ACTIVE
           /\ inst[i].start_date >= now
           /\ GtaskOf(gtasks, i) = {}
    /\ \E i \in DOMAIN inst :
           /\ inst[i].assigned_user_id \notin todoUsers
           /\ inst[i].status # STATUS_ACTIVE
           /\ \E k \in DOMAIN log : log[k].task_instance_id = i

\* the item of active instance i, created by an earlier synchronisation,
\* is no longer on the board: its actor deleted it
DeletedByActor(i) ==
    /\ inst[i].status = STATUS_ACTIVE
    /\ inst[i].gtasks_task_id # None
    /\ GtaskOf(gtasks, i) = {}

\* C34: the synchronisation of a user reports what the actor did on the
\* board: an active instance whose item is completed becomes completed,
\* with the completion time of the item and one api_completed entry in the
\* log; an active instance whose item the actor deleted gets a log entry
\* with the trigger deleted_in_app.
C34_CompletionsAndDeletionsReported ==
    [][\A u \in UserNames : Syncs(u) =>
          \A i \in DOMAIN inst :
              (inst[i].assigned_user_id = u /\ inst[i].status = STATUS_ACTIVE) =>
                  /\ (\E g \in GtaskOf(CurrentBoard(gtasks), i) : g.status = "completed")
                         => /\ inst'[i].status = STATUS_COMPLETED
                            /\ \E g \in GtaskOf(gtasks, i) :
                                   inst'[i].completed_at = g.completed
                            /\ Appended(i, TRIGGER_API) = 1
                  /\ DeletedByActor(i) => Appended(i, TRIGGER_DELETED) = 1]_vars

\* C35: status and completed_at agree in every state: a completed instance
\* has its completion time set, and an active instance has none, also when
\* it was completed before and the rotation made it active again.
C35_StatusAgreesWithCompletedAt ==
    \A i \in DOMAIN inst :
        /\ inst[i].status = STATUS_COMPLETED => inst[i].completed_at # NULL
        /\ inst[i].status = STATUS_ACTIVE => inst[i].completed_at = NULL

\* this step is the turn of the deadline pass for instance i, whose user
\* has no stored credentials
Skips(i) ==
    /\ pc = "deadline"
    /\ i \in todoInst
    /\ todoInst' = todoInst \ {i}
    /\ ~users[inst[i].assigned_user_id]

\* the step leaves the status, the deadlines and the reassignment flag of
\* instance i and appends no log entry for it
LeftAlone(i) ==
    /\ inst'[i].status = inst[i].status
    /\ inst'[i].deadline_repeat = inst[i].deadline_repeat
    /\ inst'[i].deadline_final = inst[i].deadline_final
    /\ inst'[i].allow_reassignment = inst[i].allow_reassignment
    /\ \A k \in DOMAIN log' \ DOMAIN log : log'[k].task_instance_id # i

\* C36: no step of the deadline pass changes the status, the deadlines or
\* the reassignment flag of a non-terminated instance whose user has no
\* stored credentials, or logs an entry for it; the turn of such an instance
\* writes nothing at all, so it starts no rotation, however long its
\* deadline_final has elapsed.
C36_NoCredentialsNeverTransitioned ==
    [][/\ pc = "deadline" =>
              \A i \in DOMAIN inst :
                  (/\ inst[i].status # STATUS_TERMINATED
                   /\ ~users[inst[i].assigned_user_id]) => LeftAlone(i)
       /\ \A i \in DOMAIN inst : Skips(i) => inst' = inst /\ log' = log]_vars

\* an overdue active instance of a user without credentials has its turn
C36_Witness ==
    /\ pc = "deadline"
    /\ \E i \in todoInst : /\ ~users[inst[i].assigned_user_id]
                           /\ inst[i].status = STATUS_ACTIVE
                           /\ now > inst[i].deadline_final

\* the definition is active with the behaviour "Changer" and every actor of
\* its roster is registered and has stored credentials
RosterReady ==
    LET d == defs["t1"]
    IN  /\ d.known
        /\ d.is_active
        /\ d.overdue_behavior = BEHAVIOR_CHANGE
        /\ \A k \in DOMAIN d.actors :
               GetUserByName(users, d.actors[k]) /\ users[d.actors[k]]

\* the ids an instance can have within the bound of the tables
InstanceIds == 1..(MaxRows + 1)

\* within the bounds of the clock and of the tables, the instance i can still
\* pass its deadline_final and be evaluated by a later cycle
CanPassOver(i) ==
    /\ i \in DOMAIN inst
    /\ inst[i].status # STATUS_TERMINATED
    /\ inst[i].deadline_final < MaxTime
    /\ Len(inst) <= MaxRows
    /\ Len(log) + (IF inst[i].status = STATUS_ACTIVE THEN 1 ELSE 0) <= MaxRows

\* the actor at position (k + 1) mod N of the roster, k the position of the
\* user of instance i, who is in the roster
SuccessorInRoster(i) ==
    LET actors == defs[inst[i].task_definition_id].actors
        k == CHOOSE n \in DOMAIN actors : actors[n] = inst[i].assigned_user_id
    IN  actors[IF k = Len(actors) THEN 1 ELSE k + 1]

\* the instance i is terminated and the next actor of the roster holds an
\* active instance assigned after the deadline_final of i
HandedOn(i) ==
    /\ i \in DOMAIN inst
    /\ inst[i].status = STATUS_TERMINATED
    /\ \E j \in DOMAIN inst :
           /\ j # i
           /\ inst[j].task_definition_id = inst[i].task_definition_id
           /\ inst[j].assigned_user_id = SuccessorInRoster(i)
           /\ inst[j].status = STATUS_ACTIVE
           /\ inst[j].assigned_at > inst[i].deadline_final

\* the first actor of the roster holds an active instance
FirstActorHolds ==
    \E j \in DOMAIN inst : /\ inst[j].assigned_user_id = defs["t1"].actors[1]
                           /\ inst[j].status = STATUS_ACTIVE

C38_CompletedNotForever ==
    \A i \in InstanceIds :
        (/\ CanPassOver(i)
         /\ inst[i].status = STATUS_COMPLETED
         /\ defs[inst[i].task_definition_id].is_active
         /\ users[inst[i].assigned_user_id])
            ~> (i \in DOMAIN inst /\ inst[i].status # STATUS_COMPLETED)

\* after the step a non-terminated instance of the definition of instance i
\* exists for the next actor of the roster
SuccessorExists(i) ==
    \E j \in DOMAIN inst' :
        /\ inst'[j].task_definition_id = inst[i].task_definition_id
        /\ inst'[j].assigned_user_id = NextUserOf(i)
        /\ inst'[j].status # STATUS_TERMINATED

\* the instance of definition d that was created last
LastInstanceOf(d) ==
    CHOOSE i \in DOMAIN inst :
        /\ inst[i].task_definition_id = d
        /\ \A j \in DOMAIN inst : inst[j].task_definition_id = d => j <= i

\* the evaluations that terminate an instance open to reassignment leave a
\* non-terminated instance for the next actor
TerminationHandsOn ==
    \A i \in DOMAIN inst :
        (Evaluates(i) /\ inst[i].allow_reassignment /\ BecomesTerminated(i))
            => SuccessorExists(i)

\* the ensure pass that creates an instance for a definition that had
\* instances before goes on from the actor of the last one
EnsureGoesOn ==
    \A d \in DefNames :
        (/\ Visits(d)
         /\ Len(inst') = Len(inst) + 1
         /\ \E i \in DOMAIN inst : inst[i].task_definition_id = d)
            => inst'[Len(inst')].assigned_user_id
                   = NextUserName(defs[d].actors,
                                  Some(inst[LastInstanceOf(d)].assigned_user_id))

\* C39: whenever the deadline pass terminates an instance whose
\* allow_reassignment is true, a non-terminated instance for the next actor
\* of the roster exists when the evaluation ends, also when the advance
\* fails; and no later ensure pass restarts the rotation at the first actor.
C39_TerminationAllOrNothing ==
    [][TerminationHandsOn /\ EnsureGoesOn]_vars

====
